---- MODULE Spec2Model ----
(***************************************************************************)
(* State-machine model of the in-process event bus of the Cash Heartbeat   *)
(* demo (src/src/lib/eventBus.ts, class EventBus).                         *)
(*                                                                         *)
(* JavaScript runs the synchronous part of every task without preemption;  *)
(* a task can only be interleaved with others where it awaits a timer      *)
(* (simulateLatency).  Each action below is therefore one run-to-suspension*)
(* segment of a method of EventBus.                                        *)
(***************************************************************************)
EXTENDS Integers, Sequences, FiniteSets, TLC

\* ------------------------------------------------------------------ bounds
MaxSubscribe == 3
MaxUnsubscribe == 1
MaxPublish == 2
Topics == {"x", "y"}
Callbacks == {"A"}
Payloads == {"v1"}
LatencyValues == {2, 5}
\* what a callback does: return, or throw a value that converts to a string
\* (an Error), which is what the catch block's log line needs
Outcomes == {"ok", "throw"}

\* ------------------------------------------------------- program constants
LatencyWindow == 100

\* the publish calls; call p creates the event with id p
Procs == 1..MaxPublish

VARIABLES
    subscribers,          \* Map<EventTopic, Subscription[]>: topic -> array reference
    heap,                 \* the Subscription[] objects, by reference
    nextId,               \* number of ids generateId has handed to subscribe, plus 1;
                          \* generateId is taken to return a fresh id on every call
    messageQueue,         \* QueueEvent[]
    metrics,              \* QueueMetrics
    latencies,            \* number[]
    throughputInterval,   \* TRUE while the interval timer is armed
    messagesInLastSecond,
    pc,                   \* position of each publish call
    event,                \* the QueueEvent of each publish call
    ref,                  \* processMessage: the array `subscribers` refers to
    idx,                  \* processMessage: elements the for-of iterator has taken
    cur,                  \* processMessage: the loop variable `subscriber`
    invoked,              \* per publish call: the callback invocations, in order
    atStart,              \* per publish call: the topic's subscriptions when delivery began
    removedBefore,        \* per publish call: ids unsubscribed before the call
    unsubscribed,         \* issued ids that were passed to unsubscribe
    changedAfter,         \* per publish call: invocations made when the iterated array
                          \* was first changed during the delivery, -1 if it never was
    samples,              \* every latency sample ever taken, in completion order
    snapshot,             \* the object a caller holds that getMetrics returned to it
    expected,             \* what that caller expects to read from it: the metrics at
                          \* the time of the call, with the caller's own writes
    publishedSinceTick,   \* publish calls made since the last tick (or construction)
    lastTickCount,        \* publish calls made between the last two ticks
    \* ---- TransactionProcessor (src/src/services/ml/forecaster.ts, 277-749)
    accounts,             \* Map<string, Account>: id -> balance, availableBalance, type
    txns,                 \* the Transaction objects handed to the processor, by number,
                          \* each with the position of its processTransaction call
    processingQueue,      \* Transaction[]: numbers of the queued transactions
    batches,              \* the ProcessingBatch objects, in creation order
    txMetrics,            \* metrics.totalProcessed, errorCount, batchCount
    transactions,         \* Map<string, Transaction>: numbers of the stored transactions
    processingInterval,   \* TRUE while the worker's interval timer is armed
    health,               \* ServiceHealth: status and whether getHealth has run
    published,            \* events the services handed to eventBus.publish, per topic
    \* ---- useRealTimeSimulation (src/unnamed/part_001)
    intervalRef,          \* TRUE while the transaction stream's interval is armed
    anomalyIntervalRef,   \* TRUE while the anomaly stream's interval is armed
    emitted,              \* firings of the transaction stream that emitted a transaction
    streamed,             \* events published that carry a streamed transaction
    atCleanup,            \* the publish calls that were in flight when the cleanup ran
    \* ---- APIGateway (src/src/services/gateway/router.ts)
    serviceRegistry,      \* Map<string, ServiceHealth>: status, latency, errorRate
    healthTicks,          \* firings of the gateway's metrics interval
    gwMetrics,            \* totalRequests, successfulRequests, failedRequests, requestsPerSecond
    requestsInLastSecond,
    metricsInterval,      \* TRUE while the gateway's metrics interval is armed
    requests,             \* the route() calls made, each with the position it is at
    activeRequests,       \* Map<string, GatewayRequest>, by its keys
    rateLimitMap,         \* Map<string, RateLimitEntry>: userId -> count, resetAt
    now,                  \* Date.now(), in milliseconds since the gateway was constructed
    traces,               \* Map<string, DistributedTrace>, by the requests that started one
    admittedInWindow      \* userId -> route -> requests admitted since the entry was created

vars == <<subscribers, heap, nextId, messageQueue, metrics, latencies,
          throughputInterval, messagesInLastSecond, pc, event, ref, idx, cur,
          invoked, atStart, removedBefore, unsubscribed, changedAfter, samples,
          snapshot, expected, publishedSinceTick, lastTickCount,
          accounts, txns, processingQueue, batches, txMetrics, transactions,
          processingInterval, health, published,
          intervalRef, anomalyIntervalRef, emitted, streamed, atCleanup,
          serviceRegistry, healthTicks, gwMetrics, requestsInLastSecond,
          metricsInterval, requests, activeRequests, rateLimitMap, now, traces,
          admittedInWindow>>

procVars == <<pc, event, ref, idx, cur, invoked, atStart, removedBefore>>

\* a caller's view of getMetrics
snapVars == <<snapshot, expected>>

\* the publish calls as the timer's periods divide them
tickVars == <<publishedSinceTick, lastTickCount>>

\* the event bus
busVars == <<subscribers, heap, nextId, messageQueue, metrics, latencies,
             throughputInterval, messagesInLastSecond, procVars, unsubscribed,
             changedAfter, samples, snapVars, tickVars>>

\* the transaction processor
txVars == <<accounts, txns, processingQueue, batches, txMetrics, transactions,
            processingInterval, health, published>>

\* the simulation hook
hookVars == <<intervalRef, anomalyIntervalRef, emitted, streamed, atCleanup>>

\* the gateway
gwVars == <<serviceRegistry, healthTicks, gwMetrics, requestsInLastSecond,
            metricsInterval, requests, activeRequests, rateLimitMap, now, traces,
            admittedInWindow>>

\* the services that use the bus
serviceVars == <<txVars, hookVars, gwVars>>

\* ----------------------------------------------------------------- helpers
\* ids are issued from 1 on, so 0 is an id that was never issued
NoSub == [id |-> 0, topic |-> "", callback |-> ""]
NoEvent == [id |-> 0, topic |-> "", payload |-> ""]

\* the caller has not called getMetrics: it holds no object
NoSnapshot == [object |-> "none", fields |-> << >>]

RECURSIVE SumSeq(_)
SumSeq(s) == IF s = <<>> THEN 0 ELSE Head(s) + SumSeq(Tail(s))

\* Math.round(sum / n) for sum >= 0, n > 0: halves round up
RoundDiv(sum, n) == (2 * sum + n) \div (2 * n)

\* messageQueue.filter((e) => e.id !== id)
RECURSIVE Filter(_, _)
Filter(s, id) ==
    IF s = <<>> THEN <<>>
    ELSE IF Head(s).id # id THEN <<Head(s)>> \o Filter(Tail(s), id)
         ELSE Filter(Tail(s), id)

\* findIndex without the test for -1 at line 75: splice(-1, 1) removes the
\* last element of the array
FindIndexUnchecked(subs, subscriptionId) ==
    IF \E i \in 1..Len(subs) : subs[i].id = subscriptionId
    THEN CHOOSE i \in 1..Len(subs) :
            /\ subs[i].id = subscriptionId
            /\ \A j \in 1..(i - 1) : subs[j].id # subscriptionId
    ELSE Len(subs)

\* subs.findIndex((s) => s.id === subscriptionId), 1-based, 0 for -1
FindIndex(subs, subscriptionId) ==
    IF \E i \in 1..Len(subs) : subs[i].id = subscriptionId
    THEN CHOOSE i \in 1..Len(subs) :
            /\ subs[i].id = subscriptionId
            /\ \A j \in 1..(i - 1) : subs[j].id # subscriptionId
    ELSE 0

\* a splice that removes nothing (a deleteCount of 0)
SpliceKeepAll(subs, index) == subs

\* a removal by callback: every subscription of the callback goes
SpliceSameCallback(subs, index) ==
    SelectSeq(subs, LAMBDA sub : sub.callback # subs[index].callback)

\* subs.splice(index, 1), index 1-based
Splice(subs, index) ==
    [i \in 1..(Len(subs) - 1) |-> IF i < index THEN subs[i] ELSE subs[i + 1]]

\* ids of the subscriptions currently held by the registry
LiveIds ==
    UNION {{heap[subscribers[t]][i].id : i \in 1..Len(heap[subscribers[t]])} :
           t \in DOMAIN subscribers}

\* the ids of a sequence of subscriptions or of invocation records
SubIds(subs) == {subs[i].id : i \in 1..Len(subs)}

\* ------------------------------------------- the services after construction
\* generateAccounts (src/unnamed/part_000, 40-83), amounts in cents
MockAccounts ==
    [acc_1 |-> [type |-> "checking", balance |-> 24875045, availableBalance |-> 24325045],
     acc_2 |-> [type |-> "savings", balance |-> 50000000, availableBalance |-> 50000000],
     acc_3 |-> [type |-> "payment_processor", balance |-> 8723412,
                availableBalance |-> 8213412],
     acc_4 |-> [type |-> "credit", balance |-> -1245078, availableBalance |-> -1245078]]

\* the topics the services publish to (TOPICS, eventBus.ts 260-291)
TopicNames ==
    {"transactions.new", "transactions.processed", "transactions.failed",
     "balance.updated", "balance.low", "alerts.anomaly", "system.health",
     "system.error"}

\* the gateway's service registry (router.ts 30-63), error rates in hundredths
\* of a percent
InitialRegistry ==
    [gateway |-> [status |-> "healthy", latency |-> 12, errorRate |-> 2],
     transactions |-> [status |-> "healthy", latency |-> 45, errorRate |-> 15],
     ml |-> [status |-> "healthy", latency |-> 156, errorRate |-> 45],
     reconciliation |-> [status |-> "healthy", latency |-> 78, errorRate |-> 8]]

InitProcessor ==
    /\ accounts = MockAccounts
    /\ txns = << >>
    /\ processingQueue = << >>
    /\ batches = << >>
    /\ txMetrics = [totalProcessed |-> 0, errorCount |-> 0, batchCount |-> 0]
    /\ transactions = {}
    /\ processingInterval = TRUE
    /\ health = [status |-> "healthy", errorRate |-> [num |-> 15, den |-> 100],
                 checked |-> FALSE]
    /\ published = [t \in TopicNames |-> 0]

InitHook ==
    /\ intervalRef = TRUE
    /\ anomalyIntervalRef = TRUE
    /\ emitted = 0
    /\ streamed = 0
    /\ atCleanup = {}

\* the users that call the gateway; route() counts a call without a userId
\* under 'anonymous' (router.ts 155)
Users == {"anonymous"}

InitGateway ==
    /\ serviceRegistry = InitialRegistry
    /\ healthTicks = 0
    /\ gwMetrics = [totalRequests |-> 0, successfulRequests |-> 0, failedRequests |-> 0,
                    requestsPerSecond |-> 0]
    /\ requestsInLastSecond = 0
    /\ metricsInterval = TRUE
    /\ requests = << >>
    /\ activeRequests = {}
    /\ rateLimitMap = << >>
    /\ now = 0
    /\ traces = {}
    /\ admittedInWindow = << >>

InitServices == InitProcessor /\ InitHook /\ InitGateway

\* ------------------------------------------------------------------- Init
InitBus ==
    /\ subscribers = << >>
    /\ heap = << >>
    /\ nextId = 1
    /\ messageQueue = << >>
    /\ metrics = [totalPublished |-> 0, totalConsumed |-> 0, currentDepth |-> 0,
                  avgLatency |-> 0, throughput |-> 0]
    /\ latencies = << >>
    /\ throughputInterval = TRUE
    /\ messagesInLastSecond = 0
    /\ pc = [p \in Procs |-> "idle"]
    /\ event = [p \in Procs |-> NoEvent]
    /\ ref = [p \in Procs |-> 0]
    /\ idx = [p \in Procs |-> 0]
    /\ cur = [p \in Procs |-> NoSub]
    /\ invoked = [p \in Procs |-> << >>]
    /\ atStart = [p \in Procs |-> << >>]
    /\ removedBefore = [p \in Procs |-> {}]
    /\ unsubscribed = {}
    /\ changedAfter = [p \in Procs |-> -1]
    /\ samples = << >>
    /\ snapshot = NoSnapshot
    /\ expected = << >>
    /\ publishedSinceTick = 0
    /\ lastTickCount = 0

Init == InitBus /\ InitServices

\* a delivery is disturbed when the array it iterates is changed under it
Disturb(newHeap) ==
    [p \in Procs |->
        IF changedAfter[p] = -1 /\ pc[p] = "deliver" /\ newHeap[ref[p]] # heap[ref[p]]
        THEN Len(invoked[p]) ELSE changedAfter[p]]

Undisturbed(p) == changedAfter[p] = -1

\* unshift() in the place of push(): the newest subscription goes first
SubscribeUnshift(topic, callback) ==
    /\ nextId <= MaxSubscribe
    /\ LET subscription == [id |-> nextId, topic |-> topic, callback |-> callback]
       IN IF topic \notin DOMAIN subscribers
          THEN /\ heap' = Append(heap, <<subscription>>)
               /\ subscribers' = subscribers @@ (topic :> Len(heap) + 1)
          ELSE /\ heap' = [heap EXCEPT ![subscribers[topic]] = <<subscription>> \o @]
               /\ subscribers' = subscribers
    /\ nextId' = nextId + 1
    /\ changedAfter' = Disturb(heap')
    /\ UNCHANGED <<messageQueue, metrics, latencies, throughputInterval,
                   messagesInLastSecond, procVars, unsubscribed, samples>>
    /\ UNCHANGED <<snapVars, tickVars>>
    /\ UNCHANGED serviceVars

\* ------------------------------------------------------ subscribe (48-67)
Subscribe(topic, callback) ==
    /\ nextId <= MaxSubscribe
    /\ LET subscription == [id |-> nextId, topic |-> topic, callback |-> callback]
       IN IF topic \notin DOMAIN subscribers
          THEN /\ heap' = Append(heap, <<subscription>>)
               /\ subscribers' = subscribers @@ (topic :> Len(heap) + 1)
          ELSE /\ heap' = [heap EXCEPT ![subscribers[topic]] = Append(@, subscription)]
               /\ subscribers' = subscribers
    /\ nextId' = nextId + 1
    /\ changedAfter' = Disturb(heap')
    /\ UNCHANGED <<messageQueue, metrics, latencies, throughputInterval,
                   messagesInLastSecond, procVars, unsubscribed, samples>>
    /\ UNCHANGED <<snapVars, tickVars>>
    /\ UNCHANGED serviceVars

\* unsubscribe without lines 78-80: the emptied array stays in the map
UnsubscribeKeepTopic(subscriptionId) ==
    /\ \/ subscriptionId \notin 1..(nextId - 1)
       \/ subscriptionId \in unsubscribed
       \/ Cardinality(unsubscribed) < MaxUnsubscribe
    /\ LET hit == {t \in DOMAIN subscribers :
                     FindIndex(heap[subscribers[t]], subscriptionId) # 0}
       IN IF hit = {}
          THEN UNCHANGED <<subscribers, heap>>
          ELSE LET topic == CHOOSE t \in hit : TRUE
                   subs == heap[subscribers[topic]]
                   rest == Splice(subs, FindIndex(subs, subscriptionId))
               IN /\ heap' = [heap EXCEPT ![subscribers[topic]] = rest]
                  /\ subscribers' = subscribers
    /\ unsubscribed' = unsubscribed \cup ({subscriptionId} \cap (1..(nextId - 1)))
    /\ changedAfter' = Disturb(heap')
    /\ UNCHANGED <<nextId, messageQueue, metrics, latencies, throughputInterval,
                   messagesInLastSecond, procVars, samples>>
    /\ UNCHANGED <<snapVars, tickVars>>
    /\ UNCHANGED serviceVars

\* ---------------------------------------------------- unsubscribe (72-84)
Unsubscribe(subscriptionId) ==
    \* at most MaxUnsubscribe calls that name an issued id not named before
    /\ \/ subscriptionId \notin 1..(nextId - 1)
       \/ subscriptionId \in unsubscribed
       \/ Cardinality(unsubscribed) < MaxUnsubscribe
    /\ LET hit == {t \in DOMAIN subscribers :
                     FindIndex(heap[subscribers[t]], subscriptionId) # 0}
       IN IF hit = {}
          THEN UNCHANGED <<subscribers, heap>>
          ELSE LET topic == CHOOSE t \in hit : TRUE
                   subs == heap[subscribers[topic]]
                   rest == Splice(subs, FindIndex(subs, subscriptionId))
               IN /\ heap' = [heap EXCEPT ![subscribers[topic]] = rest]
                  /\ subscribers' =
                        IF Len(rest) = 0
                        THEN [t \in DOMAIN subscribers \ {topic} |-> subscribers[t]]
                        ELSE subscribers
    /\ unsubscribed' = unsubscribed \cup ({subscriptionId} \cap (1..(nextId - 1)))
    /\ changedAfter' = Disturb(heap')
    /\ UNCHANGED <<nextId, messageQueue, metrics, latencies, throughputInterval,
                   messagesInLastSecond, procVars, samples>>
    /\ UNCHANGED <<snapVars, tickVars>>
    /\ UNCHANGED serviceVars

\* --------------------------------------------------------- publish (89-133)
\* pop() in the place of shift(): the newest sample is dropped, not the oldest
RecordLatencyPop(lats, latency) ==
    LET pushed == Append(lats, latency)
    IN IF Len(pushed) > LatencyWindow THEN SubSeq(pushed, 1, Len(pushed) - 1) ELSE pushed

\* lines 128-131: push the sample, keep the last LatencyWindow
RecordLatency(lats, latency) ==
    LET pushed == Append(lats, latency)
    IN IF Len(pushed) > LatencyWindow THEN Tail(pushed) ELSE pushed

\* updateAvgLatency (213-217)
UpdateAvgLatency(avg, lats) ==
    IF Len(lats) = 0 THEN avg ELSE RoundDiv(SumSeq(lats), Len(lats))

\* lines 126-132, after processMessage has returned; m is the metrics record so far
FinishPublish(p, m) ==
    \E latency \in LatencyValues :
        /\ latencies' = RecordLatency(latencies, latency)
        /\ samples' = Append(samples, latency)
        /\ metrics' = [m EXCEPT !.avgLatency = UpdateAvgLatency(@, latencies')]
        /\ pc' = [pc EXCEPT ![p] = "done"]
        \* the locals of the two calls are gone once publish has returned
        /\ ref' = [ref EXCEPT ![p] = 0]
        /\ idx' = [idx EXCEPT ![p] = 0]
        /\ cur' = [cur EXCEPT ![p] = NoSub]

\* lines 95-121: the synchronous part of publish, up to the first await
PublishCall(p, topic, payload) ==
    /\ pc[p] = "idle"
    /\ \A q \in 1..(p - 1) : pc[q] # "idle"
    /\ LET ev == [id |-> p, topic |-> topic, payload |-> payload]
       IN /\ messageQueue' = Append(messageQueue, ev)
          /\ event' = [event EXCEPT ![p] = ev]
    /\ metrics' = [metrics EXCEPT !.totalPublished = @ + 1,
                                  !.currentDepth = Len(messageQueue')]
    /\ messagesInLastSecond' = messagesInLastSecond + 1
    /\ pc' = [pc EXCEPT ![p] = "latency"]
    /\ removedBefore' = [removedBefore EXCEPT ![p] = unsubscribed]
    /\ UNCHANGED <<subscribers, heap, nextId, latencies, throughputInterval,
                   ref, idx, cur, invoked, atStart, unsubscribed, changedAfter, samples>>
    /\ publishedSinceTick' = publishedSinceTick + 1
    /\ UNCHANGED <<snapVars, lastTickCount>>

\* a publish call by a caller that is none of the services
PublishStart(p, topic, payload) ==
    /\ PublishCall(p, topic, payload)
    /\ UNCHANGED serviceVars

\* a lookup that registers the topic it does not find, as subscribe does
\* (lines 57-59), before it returns early
BeginDeliveryCreate(p) ==
    /\ pc[p] = "latency"
    /\ LET topic == event[p].topic
           subs == IF topic \in DOMAIN subscribers
                   THEN heap[subscribers[topic]] ELSE << >>
       IN /\ atStart' = [atStart EXCEPT ![p] = subs]
          /\ IF topic \notin DOMAIN subscribers
             THEN /\ heap' = Append(heap, << >>)
                  /\ subscribers' = subscribers @@ (topic :> Len(heap) + 1)
             ELSE UNCHANGED <<subscribers, heap>>
          /\ IF Len(subs) = 0
             THEN FinishPublish(p, metrics)
             ELSE /\ ref' = [ref EXCEPT ![p] = subscribers[topic]]
                  /\ idx' = [idx EXCEPT ![p] = 1]
                  /\ cur' = [cur EXCEPT ![p] = subs[1]]
                  /\ pc' = [pc EXCEPT ![p] = "deliver"]
                  /\ UNCHANGED <<metrics, latencies, samples>>
    /\ UNCHANGED <<nextId, messageQueue, throughputInterval,
                   messagesInLastSecond, event, invoked, removedBefore, unsubscribed,
                   changedAfter>>
    /\ UNCHANGED <<snapVars, tickVars>>
    /\ UNCHANGED serviceVars

\* lines 138-150: processMessage from its start to the first await of the loop,
\* or through the early return and the rest of publish
BeginDelivery(p) ==
    /\ pc[p] = "latency"
    /\ LET topic == event[p].topic
           subs == IF topic \in DOMAIN subscribers
                   THEN heap[subscribers[topic]] ELSE << >>
       IN /\ atStart' = [atStart EXCEPT ![p] = subs]
          /\ IF Len(subs) = 0
             THEN FinishPublish(p, metrics)
             ELSE /\ ref' = [ref EXCEPT ![p] = subscribers[topic]]
                  /\ idx' = [idx EXCEPT ![p] = 1]
                  /\ cur' = [cur EXCEPT ![p] = subs[1]]
                  /\ pc' = [pc EXCEPT ![p] = "deliver"]
                  /\ UNCHANGED <<metrics, latencies, samples>>
    /\ UNCHANGED <<subscribers, heap, nextId, messageQueue, throughputInterval,
                   messagesInLastSecond, event, invoked, removedBefore, unsubscribed,
                   changedAfter>>
    /\ UNCHANGED <<snapVars, tickVars>>
    /\ UNCHANGED serviceVars

\* the increment placed before the callback, or in a finally block
ConsumedAlways(total, outcome) == total + 1

\* lines 151-152: the increment is skipped when the callback throws
ConsumedAfter(total, outcome) == IF outcome = "ok" THEN total + 1 ELSE total

\* the try/catch placed around the whole loop: a throw ends the delivery
AfterCallbackAbort(outcome) == IF outcome = "throw" THEN "abort" ELSE "next"

\* no try/catch at all: a throw rejects processMessage and with it publish
AfterCallbackReject(outcome) == IF outcome = "throw" THEN "reject" ELSE "next"

\* lines 148-155: the try/catch is inside the loop, so the loop goes on to the
\* next element whatever the callback did
AfterCallback(outcome) == "next"

\* a processMessage that ends with currentDepth-- in the place of line 161
DeliverDecrement(p, outcome) ==
    /\ pc[p] = "deliver"
    /\ invoked' = [invoked EXCEPT ![p] =
                      Append(@, [id |-> cur[p].id, callback |-> cur[p].callback,
                                 payload |-> event[p].payload, outcome |-> outcome])]
    /\ LET m1 == [metrics EXCEPT !.totalConsumed = ConsumedAfter(@, outcome)]
       IN CASE idx[p] < Len(heap[ref[p]]) ->
                 /\ cur' = [cur EXCEPT ![p] = heap[ref[p]][idx[p] + 1]]
                 /\ idx' = [idx EXCEPT ![p] = idx[p] + 1]
                 /\ metrics' = m1
                 /\ UNCHANGED <<pc, ref, messageQueue, latencies, samples>>
            [] OTHER ->
                 /\ messageQueue' = Filter(messageQueue, event[p].id)
                 /\ FinishPublish(p, [m1 EXCEPT !.currentDepth = @ - 1])
    /\ UNCHANGED <<subscribers, heap, nextId, throughputInterval,
                   messagesInLastSecond, event, atStart, removedBefore, unsubscribed,
                   changedAfter>>
    /\ UNCHANGED <<snapVars, tickVars>>
    /\ UNCHANGED serviceVars

\* a delivery that counts its own successes in a local and stores the local in
\* the shared counter: deliveries overwrite one another's counts
DeliverLocalCount(p, outcome) ==
    /\ pc[p] = "deliver"
    /\ invoked' = [invoked EXCEPT ![p] =
                      Append(@, [id |-> cur[p].id, callback |-> cur[p].callback,
                                 payload |-> event[p].payload, outcome |-> outcome])]
    /\ LET own == Cardinality({i \in 1..Len(invoked'[p]) : invoked'[p][i].outcome = "ok"})
           m1 == [metrics EXCEPT !.totalConsumed = IF outcome = "ok" THEN own ELSE @]
       IN CASE idx[p] < Len(heap[ref[p]]) ->
                 /\ cur' = [cur EXCEPT ![p] = heap[ref[p]][idx[p] + 1]]
                 /\ idx' = [idx EXCEPT ![p] = idx[p] + 1]
                 /\ metrics' = m1
                 /\ UNCHANGED <<pc, ref, messageQueue, latencies, samples>>
            [] OTHER ->
                 /\ messageQueue' = Filter(messageQueue, event[p].id)
                 /\ FinishPublish(p, [m1 EXCEPT !.currentDepth = Len(messageQueue')])
    /\ UNCHANGED <<subscribers, heap, nextId, throughputInterval,
                   messagesInLastSecond, event, atStart, removedBefore, unsubscribed,
                   changedAfter>>
    /\ UNCHANGED <<snapVars, tickVars>>
    /\ UNCHANGED serviceVars

\* lines 151-161 and 126-132: from the wake-up of the loop's await to the next
\* await of the loop, or through the end of processMessage and of publish
Deliver(p, outcome) ==
    /\ pc[p] = "deliver"
    /\ invoked' = [invoked EXCEPT ![p] =
                      Append(@, [id |-> cur[p].id, callback |-> cur[p].callback,
                                 payload |-> event[p].payload, outcome |-> outcome])]
    /\ LET m1 == [metrics EXCEPT !.totalConsumed = ConsumedAfter(@, outcome)]
           after == AfterCallback(outcome)
       IN CASE after = "reject" ->
                 /\ pc' = [pc EXCEPT ![p] = "rejected"]
                 /\ metrics' = m1
                 /\ UNCHANGED <<ref, idx, cur, messageQueue, latencies, samples>>
            [] after = "next" /\ idx[p] < Len(heap[ref[p]]) ->
                 /\ cur' = [cur EXCEPT ![p] = heap[ref[p]][idx[p] + 1]]
                 /\ idx' = [idx EXCEPT ![p] = idx[p] + 1]
                 /\ metrics' = m1
                 /\ UNCHANGED <<pc, ref, messageQueue, latencies, samples>>
            [] OTHER ->
                 /\ messageQueue' = Filter(messageQueue, event[p].id)
                 /\ FinishPublish(p, [m1 EXCEPT !.currentDepth = Len(messageQueue')])
    /\ UNCHANGED <<subscribers, heap, nextId, throughputInterval,
                   messagesInLastSecond, event, atStart, removedBefore, unsubscribed,
                   changedAfter>>
    /\ UNCHANGED <<snapVars, tickVars>>
    /\ UNCHANGED serviceVars

\* a clear() that resets the whole metrics record along with the queue
ClearMetrics ==
    /\ messageQueue' = << >>
    /\ metrics' = [totalPublished |-> 0, totalConsumed |-> 0, currentDepth |-> 0,
                   avgLatency |-> 0, throughput |-> 0]
    /\ UNCHANGED <<subscribers, heap, nextId, latencies, throughputInterval,
                   messagesInLastSecond, procVars, unsubscribed, changedAfter, samples>>
    /\ UNCHANGED <<snapVars, tickVars>>
    /\ UNCHANGED serviceVars

\* ------------------------------------------------------- clear (196-200)
Clear ==
    /\ messageQueue' = << >>
    /\ metrics' = [metrics EXCEPT !.currentDepth = 0]
    /\ UNCHANGED <<subscribers, heap, nextId, latencies, throughputInterval,
                   messagesInLastSecond, procVars, unsubscribed, changedAfter, samples>>
    /\ UNCHANGED <<snapVars, tickVars>>
    /\ UNCHANGED serviceVars

\* ------------------------------------------------- getMetrics (167-169)
\* return this.metrics: the caller holds the bus's own record
ReturnLive(m) == [object |-> "metrics", fields |-> << >>]

\* line 168: { ...this.metrics }, a new object with the five numbers copied
Spread(m) == [object |-> "copy", fields |-> m]

\* what a read of the caller's object gives
ReadSnapshot ==
    IF snapshot.object = "metrics" THEN metrics ELSE snapshot.fields

\* the model follows one object returned by getMetrics
GetMetrics ==
    /\ snapshot.object = "none"
    /\ snapshot' = Spread(metrics)
    /\ expected' = metrics
    /\ UNCHANGED <<subscribers, heap, nextId, messageQueue, metrics, latencies,
                   throughputInterval, messagesInLastSecond, procVars, unsubscribed,
                   changedAfter, samples, tickVars>>
    /\ UNCHANGED serviceVars

\* the caller assigns to a field of the object it was given
MutateSnapshot(field, value) ==
    /\ snapshot.object # "none"
    /\ ReadSnapshot[field] # value
    /\ IF snapshot.object = "metrics"
       THEN /\ metrics' = [metrics EXCEPT ![field] = value]
            /\ snapshot' = snapshot
       ELSE /\ snapshot' = [snapshot EXCEPT !.fields[field] = value]
            /\ metrics' = metrics
    /\ expected' = [expected EXCEPT ![field] = value]
    /\ UNCHANGED <<subscribers, heap, nextId, messageQueue, latencies,
                   throughputInterval, messagesInLastSecond, procVars, unsubscribed,
                   changedAfter, samples, tickVars>>
    /\ UNCHANGED serviceVars

\* an interval callback without line 225: the counter is never reset
TickNoReset ==
    /\ throughputInterval
    /\ metrics' = [metrics EXCEPT !.throughput = messagesInLastSecond]
    /\ messagesInLastSecond' = messagesInLastSecond
    /\ UNCHANGED <<subscribers, heap, nextId, messageQueue, latencies,
                   throughputInterval, procVars, unsubscribed, changedAfter, samples>>
    /\ lastTickCount' = publishedSinceTick
    /\ publishedSinceTick' = 0
    /\ UNCHANGED snapVars
    /\ UNCHANGED serviceVars

\* an interval that clearInterval does not stop
TickAfterDestroy ==
    /\ throughputInterval \/ ~throughputInterval
    /\ metrics' = [metrics EXCEPT !.throughput = messagesInLastSecond]
    /\ messagesInLastSecond' = 0
    /\ UNCHANGED <<subscribers, heap, nextId, messageQueue, latencies,
                   throughputInterval, procVars, unsubscribed, changedAfter, samples>>
    /\ lastTickCount' = publishedSinceTick
    /\ publishedSinceTick' = 0
    /\ UNCHANGED snapVars
    /\ UNCHANGED serviceVars

\* ------------------------------- the interval callback (223-226)
Tick ==
    /\ throughputInterval
    /\ metrics' = [metrics EXCEPT !.throughput = messagesInLastSecond]
    /\ messagesInLastSecond' = 0
    /\ UNCHANGED <<subscribers, heap, nextId, messageQueue, latencies,
                   throughputInterval, procVars, unsubscribed, changedAfter, samples>>
    /\ lastTickCount' = publishedSinceTick
    /\ publishedSinceTick' = 0
    /\ UNCHANGED snapVars
    /\ UNCHANGED serviceVars

\* ----------------------------------------------------- destroy (232-237)
Destroy ==
    /\ throughputInterval' = FALSE
    /\ UNCHANGED <<subscribers, heap, nextId, messageQueue, metrics, latencies,
                   messagesInLastSecond, procVars, unsubscribed, changedAfter, samples>>
    /\ UNCHANGED <<snapVars, tickVars>>
    /\ UNCHANGED serviceVars

\* the delivery path of the bus: everything but the throughput timer, which
\* reads and writes only messagesInLastSecond, metrics.throughput and its handle
NextDelivery ==
    \/ \E topic \in Topics, callback \in Callbacks : Subscribe(topic, callback)
    \/ \E subscriptionId \in 0..(nextId - 1) : Unsubscribe(subscriptionId)
    \/ \E p \in Procs, topic \in Topics, payload \in Payloads : PublishStart(p, topic, payload)
    \/ \E p \in Procs : BeginDelivery(p)
    \/ \E p \in Procs, outcome \in Outcomes : Deliver(p, outcome)
    \/ Clear

\* the bus with its timer and without unsubscribe calls
NextTimer ==
    \/ \E topic \in Topics, callback \in Callbacks : Subscribe(topic, callback)
    \/ \E p \in Procs, topic \in Topics, payload \in Payloads : PublishStart(p, topic, payload)
    \/ \E p \in Procs : BeginDelivery(p)
    \/ \E p \in Procs, outcome \in Outcomes : Deliver(p, outcome)
    \/ Clear
    \/ Tick
    \/ Destroy

\* every operation of the bus
Next ==
    \/ NextDelivery
    \/ Tick
    \/ Destroy

Spec == Init /\ [][Next]_vars

SpecDelivery == Init /\ [][NextDelivery]_vars

SpecTimer == Init /\ [][NextTimer]_vars

\* publishes and clear() calls; a timer that simulateLatency has set fires, so
\* a publish that waits for one goes on
NextClear ==
    \/ \E topic \in Topics, callback \in Callbacks : Subscribe(topic, callback)
    \/ \E p \in Procs, topic \in Topics, payload \in Payloads : PublishStart(p, topic, payload)
    \/ \E p \in Procs : BeginDelivery(p)
    \/ \E p \in Procs, outcome \in Outcomes : Deliver(p, outcome)
    \/ Clear

SpecClear ==
    /\ Init
    /\ [][NextClear]_vars
    /\ \A p \in Procs :
        /\ WF_vars(BeginDelivery(p))
        /\ WF_vars(\E outcome \in Outcomes : Deliver(p, outcome))

\* ------------------------------------------------- a bus with a long history
\* The state after n publishes to a topic nobody subscribed to have resolved,
\* followed by clear() and two timer ticks; the i-th sample was 5 ms when i is
\* a multiple of 3 and 2 ms otherwise.
PrefillCounts == {0, 99, 149}

PastSamples(n) == [i \in 1..n |-> IF i % 3 = 0 THEN 5 ELSE 2]

PastWindow(n) ==
    IF n > LatencyWindow THEN SubSeq(PastSamples(n), n - LatencyWindow + 1, n)
    ELSE PastSamples(n)

InitLatency ==
    \E n \in PrefillCounts :
        /\ subscribers = << >>
        /\ heap = << >>
        /\ nextId = 1
        /\ messageQueue = << >>
        /\ metrics = [totalPublished |-> n, totalConsumed |-> 0, currentDepth |-> 0,
                      avgLatency |-> UpdateAvgLatency(0, PastWindow(n)),
                      throughput |-> 0]
        /\ latencies = PastWindow(n)
        /\ throughputInterval = TRUE
        /\ messagesInLastSecond = 0
        /\ pc = [p \in Procs |-> "idle"]
        /\ event = [p \in Procs |-> NoEvent]
        /\ ref = [p \in Procs |-> 0]
        /\ idx = [p \in Procs |-> 0]
        /\ cur = [p \in Procs |-> NoSub]
        /\ invoked = [p \in Procs |-> << >>]
        /\ atStart = [p \in Procs |-> << >>]
        /\ removedBefore = [p \in Procs |-> {}]
        /\ unsubscribed = {}
        /\ changedAfter = [p \in Procs |-> -1]
        /\ samples = PastSamples(n)
        /\ snapshot = NoSnapshot
        /\ expected = << >>
        /\ publishedSinceTick = 0
        /\ lastTickCount = 0
        /\ InitServices

\* the calls that reach the latency window: publish, and subscribe for the
\* length of the delivery
NextLatency ==
    \/ \E topic \in Topics, callback \in Callbacks : Subscribe(topic, callback)
    \/ \E p \in Procs, topic \in Topics, payload \in Payloads : PublishStart(p, topic, payload)
    \/ \E p \in Procs : BeginDelivery(p)
    \/ \E p \in Procs, outcome \in Outcomes : Deliver(p, outcome)

SpecLatency == InitLatency /\ [][NextLatency]_vars

\* ------------------------------------------ a caller that reads the metrics
\* The state after subscribe('x', A) has been called twice on a new bus.
InitSnapshot ==
    LET s1 == [id |-> 1, topic |-> "x", callback |-> "A"]
        s2 == [id |-> 2, topic |-> "x", callback |-> "A"]
    IN /\ subscribers = ("x" :> 1)
       /\ heap = << <<s1, s2>> >>
       /\ nextId = 3
       /\ messageQueue = << >>
       /\ metrics = [totalPublished |-> 0, totalConsumed |-> 0, currentDepth |-> 0,
                     avgLatency |-> 0, throughput |-> 0]
       /\ latencies = << >>
       /\ throughputInterval = TRUE
       /\ messagesInLastSecond = 0
       /\ pc = [p \in Procs |-> "idle"]
       /\ event = [p \in Procs |-> NoEvent]
       /\ ref = [p \in Procs |-> 0]
       /\ idx = [p \in Procs |-> 0]
       /\ cur = [p \in Procs |-> NoSub]
       /\ invoked = [p \in Procs |-> << >>]
       /\ atStart = [p \in Procs |-> << >>]
       /\ removedBefore = [p \in Procs |-> {}]
       /\ unsubscribed = {}
       /\ changedAfter = [p \in Procs |-> -1]
       /\ samples = << >>
       /\ snapshot = NoSnapshot
       /\ expected = << >>
       /\ publishedSinceTick = 0
       /\ lastTickCount = 0
       /\ InitServices

\* the fields the caller writes and the value it writes
MutatedFields == {"totalPublished", "currentDepth"}
MutatedValues == {9}

\* publishes, ticks and a caller of getMetrics
NextSnapshot ==
    \/ \E p \in Procs, topic \in Topics, payload \in Payloads : PublishStart(p, topic, payload)
    \/ \E p \in Procs : BeginDelivery(p)
    \/ \E p \in Procs, outcome \in Outcomes : Deliver(p, outcome)
    \/ Tick
    \/ GetMetrics
    \/ \E field \in MutatedFields, value \in MutatedValues : MutateSnapshot(field, value)

SpecSnapshot == InitSnapshot /\ [][NextSnapshot]_vars

\* ============================================================ the processor
\* TransactionProcessor (src/src/services/ml/forecaster.ts, 277-749).  The
\* processor hands its events to eventBus.publish, which never rejects and
\* resolves once the delivery is over: a publish it awaits is a suspension
\* point of the caller, counted in `published`.  Processing times and the
\* per-second counter are left out.
MaxTxn == 2
TxnAccounts == {"acc_1", "acc_4", "acc_0"}
TxnTypes == {"debit", "credit"}
TxnStatuses == {"pending", "completed"}
Amounts == {20000000}

\* line 469: batches of 10
BatchSize == 10

\* line 528: 50000, in cents
LowBalanceCents == 5000000

Min(a, b) == IF a < b THEN a ELSE b

Range(seq) == {seq[i] : i \in 1..Len(seq)}

\* a Transaction as it is handed to the processor; origin tells who handed it in
NewTxn(accountId, type, status, amount, origin) ==
    [accountId |-> accountId, type |-> type, amount |-> amount, status |-> status,
     pc |-> "queued", batch |-> 0, result |-> "none", origin |-> origin]

\* transactions handed in since the initial state
Handed == {i \in DOMAIN txns : txns[i].origin # "past"}

Publish(topic) == [published EXCEPT ![topic] = @ + 1]

\* --------------------------------------------- enqueueTransaction (448-459)
Enqueue(accountId, type, status, amount) ==
    /\ Cardinality(Handed) < MaxTxn
    /\ txns' = Append(txns, NewTxn(accountId, type, status, amount, "enqueue"))
    /\ processingQueue' = Append(processingQueue, Len(txns) + 1)
    /\ published' = Publish("transactions.new")
    /\ UNCHANGED <<accounts, batches, txMetrics, transactions, processingInterval,
                   health>>
    /\ UNCHANGED <<busVars, hookVars, gwVars>>

\* splice(0, n) result: the first n elements
Taken(queue, n) == SubSeq(queue, 1, n)

\* what slice(0, n) would leave in the array: everything
LeftBySlice(queue, n) == queue

\* what splice(0, n) leaves in the array
Left(queue, n) == SubSeq(queue, n + 1, Len(queue))

\* a worker that waits for a full batch
WorkerTickFullBatches ==
    /\ processingInterval
    /\ Len(processingQueue) >= BatchSize
    /\ LET batchSize == Min(BatchSize, Len(processingQueue))
           batch == Taken(processingQueue, batchSize)
       IN /\ processingQueue' = Left(processingQueue, batchSize)
          /\ batches' = Append(batches,
                [transactions |-> batch, status |-> "processing", processedCount |-> 0,
                 totalCount |-> Len(batch), pc |-> "startPublish"])
          /\ txns' = [i \in DOMAIN txns |->
                        IF i \in Range(batch)
                        THEN [txns[i] EXCEPT !.pc = "batched", !.batch = Len(batches) + 1]
                        ELSE txns[i]]
    /\ txMetrics' = [txMetrics EXCEPT !.batchCount = @ + 1]
    /\ published' = Publish("transactions.new")
    /\ UNCHANGED <<accounts, transactions, processingInterval, health>>
    /\ UNCHANGED <<busVars, hookVars, gwVars>>

\* --------- the worker's interval callback (465-473), into processBatch (388-408)
WorkerTick ==
    /\ processingInterval
    /\ Len(processingQueue) # 0
    /\ LET batchSize == Min(BatchSize, Len(processingQueue))
           batch == Taken(processingQueue, batchSize)
       IN /\ processingQueue' = Left(processingQueue, batchSize)
          /\ batches' = Append(batches,
                [transactions |-> batch, status |-> "processing", processedCount |-> 0,
                 totalCount |-> Len(batch), pc |-> "startPublish"])
          /\ txns' = [i \in DOMAIN txns |->
                        IF i \in Range(batch)
                        THEN [txns[i] EXCEPT !.pc = "batched", !.batch = Len(batches) + 1]
                        ELSE txns[i]]
    /\ txMetrics' = [txMetrics EXCEPT !.batchCount = @ + 1]
    /\ published' = Publish("transactions.new")
    /\ UNCHANGED <<accounts, transactions, processingInterval, health>>
    /\ UNCHANGED <<busVars, hookVars, gwVars>>

\* processBatch 410-427: the batch-start publish has resolved; map() runs every
\* callback up to its staggered sleep
BatchBegin(b) ==
    /\ batches[b].pc = "startPublish"
    /\ batches' = [batches EXCEPT ![b].pc = "running"]
    /\ txns' = [i \in DOMAIN txns |->
                  IF txns[i].batch = b THEN [txns[i] EXCEPT !.pc = "stagger"] ELSE txns[i]]
    /\ UNCHANGED <<accounts, processingQueue, txMetrics, transactions,
                   processingInterval, health, published>>
    /\ UNCHANGED <<busVars, hookVars, gwVars>>

\* validation without the balance check
ValidationFailsUnknownOnly(tx) == tx.accountId \notin DOMAIN accounts

\* validateTransaction 481-489: the two checks
ValidationFails(tx) ==
    \/ tx.accountId \notin DOMAIN accounts
    \/ tx.type = "debit" /\ accounts[tx.accountId].availableBalance < tx.amount

\* processTransaction from its start to the first await: validateTransaction
\* up to its sleep (336, 481-492), or the catch block up to its publish (369-378)
Validate(t) ==
    /\ txns[t].pc = "stagger"
    /\ IF ValidationFails(txns[t])
       THEN /\ txMetrics' = [txMetrics EXCEPT !.errorCount = @ + 1]
            /\ txns' = [txns EXCEPT ![t].status = "failed", ![t].pc = "failedPublish"]
            /\ published' = Publish("transactions.failed")
       ELSE /\ txns' = [txns EXCEPT ![t].pc = "validated"]
            /\ UNCHANGED <<txMetrics, published>>
    /\ UNCHANGED <<accounts, processingQueue, batches, transactions,
                   processingInterval, health>>
    /\ UNCHANGED <<busVars, hookVars, gwVars>>

\* lines 502-504
BalanceChange(tx) == IF tx.type = "credit" THEN tx.amount ELSE -tx.amount

\* lines 509-511: the status read is the one the transaction came in with
AvailableAfter(available, tx) ==
    IF tx.status = "completed" THEN available + BalanceChange(tx) ELSE available

\* the sleeps of lines 492 and 339 have elapsed; updateAccountBalance up to its
\* first publish (499-525)
Apply(t) ==
    /\ txns[t].pc = "validated"
    /\ LET tx == txns[t]
       IN accounts' = [accounts EXCEPT
                          ![tx.accountId].balance = @ + BalanceChange(tx),
                          ![tx.accountId].availableBalance = AvailableAfter(@, tx)]
    /\ txns' = [txns EXCEPT ![t].pc = "balancePublish"]
    /\ published' = Publish("balance.updated")
    /\ UNCHANGED <<processingQueue, batches, txMetrics, transactions,
                   processingInterval, health>>
    /\ UNCHANGED <<busVars, hookVars, gwVars>>

\* processTransaction 345-362: completed, stored, counted, up to the publish
MarkCompleted(t) ==
    /\ txns' = [txns EXCEPT ![t].status = "completed", ![t].pc = "processedPublish"]
    /\ transactions' = transactions \cup {t}
    /\ txMetrics' = [txMetrics EXCEPT !.totalProcessed = @ + 1]
    /\ published' = Publish("transactions.processed")

\* the balance.updated publish has resolved: the low-balance check (528-534),
\* and without a low balance the rest of processTransaction up to its publish
AfterBalancePublish(t) ==
    /\ txns[t].pc = "balancePublish"
    /\ LET account == accounts[txns[t].accountId]
       IN IF account.availableBalance < LowBalanceCents /\ account.type = "checking"
          THEN /\ txns' = [txns EXCEPT ![t].pc = "lowPublish"]
               /\ published' = Publish("balance.low")
               /\ UNCHANGED <<transactions, txMetrics>>
          ELSE MarkCompleted(t)
    /\ UNCHANGED <<accounts, processingQueue, batches, processingInterval, health>>
    /\ UNCHANGED <<busVars, hookVars, gwVars>>

\* the balance.low publish has resolved
AfterLowPublish(t) ==
    /\ txns[t].pc = "lowPublish"
    /\ MarkCompleted(t)
    /\ UNCHANGED <<accounts, processingQueue, batches, processingInterval, health>>
    /\ UNCHANGED <<busVars, hookVars, gwVars>>

\* line 419: the batch counts a transaction whose processTransaction resolved
CountProcessed(count) == count + 1

\* processTransaction returns (366) and the batch's callback goes on (419)
Return(t) ==
    /\ txns[t].pc = "processedPublish"
    /\ txns' = [txns EXCEPT ![t].pc = "done", ![t].result = "resolved"]
    /\ batches' = [batches EXCEPT ![txns[t].batch].processedCount = CountProcessed(@)]
    /\ UNCHANGED <<accounts, processingQueue, txMetrics, transactions,
                   processingInterval, health, published>>
    /\ UNCHANGED <<busVars, hookVars, gwVars>>

\* processTransaction rethrows (380); the batch's callback catches (420-423)
Rethrow(t) ==
    /\ txns[t].pc = "failedPublish"
    /\ txns' = [txns EXCEPT ![t].pc = "failed", ![t].result = "rejected"]
    /\ UNCHANGED <<accounts, processingQueue, batches, txMetrics, transactions,
                   processingInterval, health, published>>
    /\ UNCHANGED <<busVars, hookVars, gwVars>>

\* Promise.all as if one rejected transaction rejected the batch
BatchCompleteRejecting(b) ==
    /\ batches[b].pc = "running"
    /\ \A i \in Range(batches[b].transactions) : txns[i].pc \in {"done", "failed"}
    /\ batches' = [batches EXCEPT
                      ![b].status = IF \E i \in Range(batches[b].transactions) :
                                          txns[i].pc = "failed"
                                    THEN "failed" ELSE "completed",
                      ![b].pc = "returned"]
    /\ UNCHANGED <<accounts, txns, processingQueue, txMetrics, transactions,
                   processingInterval, health, published>>
    /\ UNCHANGED <<busVars, hookVars, gwVars>>

\* Promise.all has resolved (427-434)
BatchComplete(b) ==
    /\ batches[b].pc = "running"
    /\ \A i \in Range(batches[b].transactions) : txns[i].pc \in {"done", "failed"}
    /\ batches' = [batches EXCEPT ![b].status = "completed", ![b].pc = "returned"]
    /\ UNCHANGED <<accounts, txns, processingQueue, txMetrics, transactions,
                   processingInterval, health, published>>
    /\ UNCHANGED <<busVars, hookVars, gwVars>>

\* getHealth 683-685: the error rate in percent, kept as a fraction
ErrorRate(errorCount, totalProcessed) ==
    IF totalProcessed > 0
    THEN [num |-> errorCount * 100, den |-> totalProcessed]
    ELSE [num |-> 0, den |-> 1]

\* rate > limit
Above(rate, limit) == rate.num > limit * rate.den

\* getHealth 688-694
HealthStatus(rate) ==
    IF Above(rate, 5) THEN "degraded"
    ELSE IF Above(rate, 10) THEN "down"
    ELSE "healthy"

GetHealth ==
    /\ LET rate == ErrorRate(txMetrics.errorCount, txMetrics.totalProcessed)
       IN health' = [status |-> HealthStatus(rate), errorRate |-> rate, checked |-> TRUE]
    /\ UNCHANGED <<accounts, txns, processingQueue, batches, txMetrics, transactions,
                   processingInterval, published>>
    /\ UNCHANGED <<busVars, hookVars, gwVars>>

\* the processor's destroy (736-739)
DestroyProcessor ==
    /\ processingInterval' = FALSE
    /\ UNCHANGED <<accounts, txns, processingQueue, batches, txMetrics, transactions,
                   health, published>>
    /\ UNCHANGED <<busVars, hookVars, gwVars>>

\* the steps of the transactions and batches in progress
ProcessingSteps ==
    \/ \E b \in DOMAIN batches : BatchBegin(b)
    \/ \E t \in DOMAIN txns : Validate(t)
    \/ \E t \in DOMAIN txns : Apply(t)
    \/ \E t \in DOMAIN txns : AfterBalancePublish(t)
    \/ \E t \in DOMAIN txns : AfterLowPublish(t)
    \/ \E t \in DOMAIN txns : Return(t)
    \/ \E t \in DOMAIN txns : Rethrow(t)
    \/ \E b \in DOMAIN batches : BatchComplete(b)

NextProcessor ==
    \/ \E accountId \in TxnAccounts, type \in TxnTypes, status \in TxnStatuses,
          amount \in Amounts : Enqueue(accountId, type, status, amount)
    \/ WorkerTick
    \/ ProcessingSteps
    \/ GetHealth

SpecProcessor == Init /\ [][NextProcessor]_vars

\* The worker's interval keeps firing while destroy() is not called, the sleeps
\* are timers, and a publish resolves: every step that is due is taken.
FairProcessor ==
    /\ WF_vars(WorkerTick)
    /\ \A b \in 1..MaxTxn :
          /\ WF_vars(b \in DOMAIN batches /\ BatchBegin(b))
          /\ WF_vars(b \in DOMAIN batches /\ BatchComplete(b))
    /\ \A t \in 1..MaxTxn :
          /\ WF_vars(t \in DOMAIN txns /\ Validate(t))
          /\ WF_vars(t \in DOMAIN txns /\ Apply(t))
          /\ WF_vars(t \in DOMAIN txns /\ AfterBalancePublish(t))
          /\ WF_vars(t \in DOMAIN txns /\ AfterLowPublish(t))
          /\ WF_vars(t \in DOMAIN txns /\ Return(t))
          /\ WF_vars(t \in DOMAIN txns /\ Rethrow(t))

SpecProcessorFair == Init /\ [][NextProcessor]_vars /\ FairProcessor

\* ------------------------------------------------- the worker with a backlog
\* Nine transactions on an unknown account were enqueued before the first tick
\* of the worker; further ones arrive while the worker runs.
Backlog == 9

InitWorker ==
    /\ InitBus
    /\ accounts = MockAccounts
    /\ txns = [i \in 1..Backlog |-> NewTxn("acc_0", "debit", "pending", 20000000, "past")]
    /\ processingQueue = [i \in 1..Backlog |-> i]
    /\ batches = << >>
    /\ txMetrics = [totalProcessed |-> 0, errorCount |-> 0, batchCount |-> 0]
    /\ transactions = {}
    /\ processingInterval = TRUE
    /\ health = [status |-> "healthy", errorRate |-> [num |-> 15, den |-> 100],
                 checked |-> FALSE]
    /\ published = [t \in TopicNames |->
                      IF t = "transactions.new" THEN Backlog ELSE 0]
    /\ InitHook
    /\ InitGateway

NextWorker ==
    \/ Enqueue("acc_0", "debit", "pending", 20000000)
    \/ WorkerTick
    \/ \E b \in DOMAIN batches : BatchBegin(b)
    \/ \E t \in DOMAIN txns : Validate(t)
    \/ \E t \in DOMAIN txns : Rethrow(t)
    \/ \E b \in DOMAIN batches : BatchComplete(b)

SpecWorker == InitWorker /\ [][NextWorker]_vars

\* ================================================== the simulation hook
\* useRealTimeSimulation (src/unnamed/part_001): two intervals, armed when the
\* component is mounted.

\* generateTransaction (part_000 126, 132): an amount both a credit and a debit
\* can have, in cents
StreamAmounts == {500000}

\* the transaction stream's interval callback (21-42): a transaction for one of
\* the processor's accounts is enqueued, which publishes (forecaster.ts 454),
\* and then published by the hook itself (35-39)
EmitTransaction(accountId, type, status, amount) ==
    /\ intervalRef
    /\ DOMAIN accounts # {}
    /\ accountId \in DOMAIN accounts
    /\ Cardinality(Handed) < MaxTxn
    /\ txns' = Append(txns, NewTxn(accountId, type, status, amount, "stream"))
    /\ processingQueue' = Append(processingQueue, Len(txns) + 1)
    /\ published' = [published EXCEPT !["transactions.new"] = @ + 1 + 1]
    /\ streamed' = streamed + 1
    /\ emitted' = emitted + 1
    /\ UNCHANGED <<accounts, batches, txMetrics, transactions, processingInterval,
                   health>>
    /\ UNCHANGED <<intervalRef, anomalyIntervalRef, atCleanup>>
    /\ UNCHANGED <<busVars, gwVars>>

\* the anomaly stream's interval callback when it generates an anomaly (47-65),
\* up to the await in publish; "x" is the anomaly topic
EmitAnomaly(p) ==
    /\ anomalyIntervalRef
    /\ DOMAIN accounts # {}
    /\ PublishCall(p, "x", "v1")
    /\ published' = Publish("alerts.anomaly")
    /\ UNCHANGED <<accounts, txns, processingQueue, batches, txMetrics, transactions,
                   processingInterval, health>>
    /\ UNCHANGED <<hookVars, gwVars>>

\* the effect's cleanup (77-80)
Cleanup ==
    /\ intervalRef' = FALSE
    /\ anomalyIntervalRef' = FALSE
    /\ atCleanup' = IF intervalRef THEN {p \in Procs : pc[p] \in {"latency", "deliver"}}
                    ELSE atCleanup
    /\ UNCHANGED <<emitted, streamed>>
    /\ UNCHANGED <<busVars, txVars, gwVars>>

\* the transaction stream and the processor it feeds; no two streamed amounts
\* take the checking account below the low-balance threshold
NextStream ==
    \/ \E accountId \in DOMAIN MockAccounts, type \in TxnTypes, status \in TxnStatuses,
          amount \in StreamAmounts : EmitTransaction(accountId, type, status, amount)
    \/ Cleanup
    \/ WorkerTick
    \/ \E b \in DOMAIN batches : BatchBegin(b)
    \/ \E t \in DOMAIN txns : Validate(t)
    \/ \E t \in DOMAIN txns : Apply(t)
    \/ \E t \in DOMAIN txns : AfterBalancePublish(t)
    \/ \E t \in DOMAIN txns : Return(t)
    \/ \E t \in DOMAIN txns : Rethrow(t)
    \/ \E b \in DOMAIN batches : BatchComplete(b)

SpecStream == Init /\ [][NextStream]_vars

\* the anomaly stream on a bus with two subscribers, the bus's timer, and the
\* two teardowns; the timers that simulateLatency sets fire
NextTeardown ==
    \/ EmitTransaction("acc_1", "credit", "pending", 500000)
    \/ \E p \in Procs : EmitAnomaly(p)
    \/ \E p \in Procs : BeginDelivery(p)
    \/ \E p \in Procs, outcome \in Outcomes : Deliver(p, outcome)
    \/ Tick
    \/ Destroy
    \/ Cleanup

SpecTeardown ==
    /\ InitSnapshot
    /\ [][NextTeardown]_vars
    /\ \A p \in Procs :
        /\ WF_vars(BeginDelivery(p))
        /\ WF_vars(\E outcome \in Outcomes : Deliver(p, outcome))

\* ============================================================== the gateway
\* APIGateway (src/src/services/gateway/router.ts).  The spans of a trace, the
\* latency samples and the request history are left out.
MaxRequests == 2
MaxHealthTicks == 2

\* initializeRoutes (86-106): two of the routes, by the first pattern and
\* method that match a request
Routes ==
    [transactions |-> [service |-> "transactions", rateLimit |-> 100],
     autopsy |-> [service |-> "ml", rateLimit |-> 10]]

\* the requests made: one that the first route matches, and one that no route
\* matches
RequestKinds == {"transactions", "unrouted"}

\* findRoute's null
NoRoute == [service |-> "", rateLimit |-> 0]

\* findRoute (250-261)
FindRoute(kind) == IF kind \in DOMAIN Routes THEN Routes[kind] ELSE NoRoute

\* line 294: the window, 60000 ms
WindowMs == 60000

\* nobody was admitted on any route
NoneAdmitted == [k \in DOMAIN Routes |-> 0]

\* a limit that is compared with > in the place of >=
CheckRateLimitAbove(map, userId, limit, time) ==
    IF userId \notin DOMAIN map \/ map[userId].resetAt < time
    THEN [map |-> (userId :> [count |-> 1, resetAt |-> time + WindowMs]) @@ map,
          allowed |-> TRUE, opened |-> TRUE]
    ELSE IF map[userId].count > limit
    THEN [map |-> map, allowed |-> FALSE, opened |-> FALSE]
    ELSE [map |-> [map EXCEPT ![userId].count = @ + 1],
          allowed |-> TRUE, opened |-> FALSE]

\* a window that never ends
CheckRateLimitForever(map, userId, limit, time) ==
    IF userId \notin DOMAIN map
    THEN [map |-> (userId :> [count |-> 1, resetAt |-> time + WindowMs]) @@ map,
          allowed |-> TRUE, opened |-> TRUE]
    ELSE IF map[userId].count >= limit
    THEN [map |-> map, allowed |-> FALSE, opened |-> FALSE]
    ELSE [map |-> [map EXCEPT ![userId].count = @ + 1],
          allowed |-> TRUE, opened |-> FALSE]

\* checkRateLimit (283-304): the map after the call, and whether the call is
\* allowed
CheckRateLimit(map, userId, limit, time) ==
    IF userId \notin DOMAIN map \/ map[userId].resetAt < time
    THEN [map |-> (userId :> [count |-> 1, resetAt |-> time + WindowMs]) @@ map,
          allowed |-> TRUE, opened |-> TRUE]
    ELSE IF map[userId].count >= limit
    THEN [map |-> map, allowed |-> FALSE, opened |-> FALSE]
    ELSE [map |-> [map EXCEPT ![userId].count = @ + 1],
          allowed |-> TRUE, opened |-> FALSE]

\* the route() calls made since the initial state
Made == {q \in DOMAIN requests : requests[q].origin # "past"}

\* route() up to its first await (116-176), or up to the publish of its catch
\* block (224-233)
RouteStart(kind, userId) ==
    /\ Cardinality(Made) < MaxRequests
    /\ LET id == Len(requests) + 1
           route == FindRoute(kind)
           limited == route # NoRoute /\ route.rateLimit # 0
           check == IF limited
                    THEN CheckRateLimit(rateLimitMap, userId, route.rateLimit, now)
                    ELSE [map |-> rateLimitMap, allowed |-> TRUE, opened |-> FALSE]
           error == IF route = NoRoute THEN "Route not found"
                    ELSE IF ~check.allowed THEN "Rate limit exceeded"
                    ELSE ""
           before == IF check.opened \/ userId \notin DOMAIN admittedInWindow
                     THEN NoneAdmitted ELSE admittedInWindow[userId]
       IN /\ activeRequests' = activeRequests \cup {id}
          /\ requestsInLastSecond' = requestsInLastSecond + 1
          /\ rateLimitMap' = check.map
          /\ admittedInWindow' =
                IF limited
                THEN (userId :> IF check.allowed THEN [before EXCEPT ![kind] = @ + 1]
                                ELSE before) @@ admittedInWindow
                ELSE admittedInWindow
          /\ IF error # ""
             THEN /\ gwMetrics' = [gwMetrics EXCEPT !.totalRequests = @ + 1,
                                                    !.failedRequests = @ + 1]
                  /\ published' = Publish("system.error")
                  /\ traces' = traces
                  /\ requests' = Append(requests,
                        [kind |-> kind, userId |-> userId, pc |-> "errorPublish",
                         service |-> IF route = NoRoute THEN "" ELSE route.service,
                         serviceLatency |-> 0, success |-> "none", error |-> error,
                         origin |-> "route"])
             ELSE /\ gwMetrics' = [gwMetrics EXCEPT !.totalRequests = @ + 1]
                  /\ published' = published
                  /\ traces' = traces \cup {id}
                  /\ requests' = Append(requests,
                        [kind |-> kind, userId |-> userId, pc |-> "gatewaySleep",
                         service |-> route.service, serviceLatency |-> 0,
                         success |-> "none", error |-> "", origin |-> "route"])
    /\ UNCHANGED <<serviceRegistry, healthTicks, metricsInterval, now>>
    /\ UNCHANGED <<accounts, txns, processingQueue, batches, txMetrics, transactions,
                   processingInterval, health>>
    /\ UNCHANGED <<busVars, hookVars>>

\* the gateway's sleep has elapsed: the routing event is published (176-184)
RoutePublish(q) ==
    /\ requests[q].pc = "gatewaySleep"
    /\ requests' = [requests EXCEPT ![q].pc = "healthPublish"]
    /\ published' = Publish("system.health")
    /\ UNCHANGED <<serviceRegistry, healthTicks, gwMetrics, requestsInLastSecond,
                   metricsInterval, activeRequests, rateLimitMap,
                   now, traces, admittedInWindow>>
    /\ UNCHANGED <<accounts, txns, processingQueue, batches, txMetrics, transactions,
                   processingInterval, health>>
    /\ UNCHANGED <<busVars, hookVars>>

\* getServiceLatency (400-403)
GetServiceLatency(service) ==
    IF service \in DOMAIN serviceRegistry /\ serviceRegistry[service].latency # 0
    THEN serviceRegistry[service].latency
    ELSE 50

\* the publish has resolved: the service's latency is read from the registry
\* and slept (186-195)
RouteService(q) ==
    /\ requests[q].pc = "healthPublish"
    /\ requests' = [requests EXCEPT
                       ![q].pc = "serviceSleep",
                       ![q].serviceLatency = GetServiceLatency(requests[q].service)]
    /\ UNCHANGED <<serviceRegistry, healthTicks, gwMetrics, requestsInLastSecond,
                   metricsInterval, activeRequests, rateLimitMap,
                   now, traces, admittedInWindow>>
    /\ UNCHANGED txVars
    /\ UNCHANGED <<busVars, hookVars>>

\* the service's sleep has elapsed: the request succeeds (197-222)
RouteSucceed(q) ==
    /\ requests[q].pc = "serviceSleep"
    /\ requests' = [requests EXCEPT ![q].pc = "done", ![q].success = "true"]
    /\ activeRequests' = activeRequests \ {q}
    /\ gwMetrics' = [gwMetrics EXCEPT !.successfulRequests = @ + 1]
    /\ UNCHANGED <<serviceRegistry, healthTicks, requestsInLastSecond, metricsInterval,
                   rateLimitMap,
                   now, traces, admittedInWindow>>
    /\ UNCHANGED txVars
    /\ UNCHANGED <<busVars, hookVars>>

\* RouteFail if the catch block threw the error again instead of returning it
RouteFailRethrow(q) ==
    /\ requests[q].pc = "errorPublish"
    /\ requests' = [requests EXCEPT ![q].pc = "done", ![q].success = "rejected"]
    /\ UNCHANGED <<serviceRegistry, healthTicks, gwMetrics, requestsInLastSecond,
                   metricsInterval, activeRequests, rateLimitMap,
                   now, traces, admittedInWindow>>
    /\ UNCHANGED txVars
    /\ UNCHANGED <<busVars, hookVars>>

\* the error event's publish has resolved: the failure is returned (235-243)
RouteFail(q) ==
    /\ requests[q].pc = "errorPublish"
    /\ requests' = [requests EXCEPT ![q].pc = "done", ![q].success = "false"]
    /\ UNCHANGED <<serviceRegistry, healthTicks, gwMetrics, requestsInLastSecond,
                   metricsInterval, activeRequests, rateLimitMap,
                   now, traces, admittedInWindow>>
    /\ UNCHANGED txVars
    /\ UNCHANGED <<busVars, hookVars>>

\* Math.round(latency + (Math.random() - 0.5) * 10) - latency
LatencyDrift == {5}

\* (Math.random() - 0.5) * 0.1, in hundredths of a percent
ErrorDrift == {-5, 4}

\* what one tick does to one service: nothing (9 times in 10), or a drift
Drifts == {[update |-> FALSE, latency |-> 0, errorRate |-> 0]}
          \cup [update : {TRUE}, latency : LatencyDrift, errorRate : ErrorDrift]

\* a positive part that is not taken
Unclamped(x) == x

\* Math.max(0, x)
Clamp(x) == IF x < 0 THEN 0 ELSE x

\* the gateway's metrics interval (418-430)
HealthTick ==
    /\ metricsInterval
    /\ healthTicks < MaxHealthTicks
    /\ healthTicks' = healthTicks + 1
    /\ gwMetrics' = [gwMetrics EXCEPT !.requestsPerSecond = requestsInLastSecond]
    /\ requestsInLastSecond' = 0
    /\ \E drift \in [DOMAIN serviceRegistry -> Drifts] :
          serviceRegistry' =
             [name \in DOMAIN serviceRegistry |->
                IF drift[name].update
                THEN [serviceRegistry[name] EXCEPT
                         !.latency = @ + drift[name].latency,
                         !.errorRate = Clamp(@ + drift[name].errorRate)]
                ELSE serviceRegistry[name]]
    /\ UNCHANGED <<metricsInterval, requests, activeRequests, rateLimitMap,
                   now, traces, admittedInWindow>>
    /\ UNCHANGED txVars
    /\ UNCHANGED <<busVars, hookVars>>

\* the gateway's destroy (465-469)
DestroyGateway ==
    /\ metricsInterval' = FALSE
    /\ UNCHANGED <<serviceRegistry, healthTicks, gwMetrics, requestsInLastSecond,
                   requests, activeRequests, rateLimitMap,
                   now, traces, admittedInWindow>>
    /\ UNCHANGED txVars
    /\ UNCHANGED <<busVars, hookVars>>

\* getMetrics() of the gateway: the counters, the size of activeRequests and a
\* rateLimitedRequests that is always 0
GatewayGetMetrics ==
    [activeRequests |-> Cardinality(activeRequests), rateLimitedRequests |-> 0]
        @@ gwMetrics

NextGateway ==
    \/ \E kind \in RequestKinds, userId \in Users : RouteStart(kind, userId)
    \/ \E q \in DOMAIN requests : RoutePublish(q)
    \/ \E q \in DOMAIN requests : RouteService(q)
    \/ \E q \in DOMAIN requests : RouteSucceed(q)
    \/ \E q \in DOMAIN requests : RouteFail(q)
    \/ HealthTick

SpecGateway == Init /\ [][NextGateway]_vars

\* ------------------------------------------------- the gateway's rate limit
MaxAdvances == 3

\* the clock is read every half window
TimeStep == WindowMs \div 2

\* time passes
Advance ==
    /\ now < MaxAdvances * TimeStep
    /\ now' = now + TimeStep
    /\ UNCHANGED <<serviceRegistry, healthTicks, gwMetrics, requestsInLastSecond,
                   metricsInterval, requests, activeRequests, rateLimitMap, traces,
                   admittedInWindow>>
    /\ UNCHANGED txVars
    /\ UNCHANGED <<busVars, hookVars>>

\* the users of the rate-limited gateway
RateUsers == {"u1", "anonymous"}

\* the number of requests u1 has had admitted before
PastCounts == {9, 10}

\* The state after user u1 has made n requests on one route in the gateway's
\* first millisecond, and all have succeeded.
InitRateLimit ==
    /\ InitBus
    /\ InitHook
    /\ accounts = MockAccounts
    /\ txns = << >>
    /\ processingQueue = << >>
    /\ batches = << >>
    /\ txMetrics = [totalProcessed |-> 0, errorCount |-> 0, batchCount |-> 0]
    /\ transactions = {}
    /\ processingInterval = TRUE
    /\ health = [status |-> "healthy", errorRate |-> [num |-> 15, den |-> 100],
                 checked |-> FALSE]
    /\ serviceRegistry = InitialRegistry
    /\ healthTicks = 0
    /\ metricsInterval = TRUE
    /\ now = 0
    /\ activeRequests = {}
    /\ \E kind \in DOMAIN Routes, n \in PastCounts :
          /\ requests = [q \in 1..n |->
                [kind |-> kind, userId |-> "u1", pc |-> "done",
                 service |-> Routes[kind].service,
                 serviceLatency |-> InitialRegistry[Routes[kind].service].latency,
                 success |-> "true", error |-> "", origin |-> "past"]]
          /\ traces = 1..n
          /\ gwMetrics = [totalRequests |-> n, successfulRequests |-> n,
                          failedRequests |-> 0, requestsPerSecond |-> 0]
          /\ requestsInLastSecond = n
          /\ rateLimitMap = ("u1" :> [count |-> n, resetAt |-> WindowMs])
          /\ admittedInWindow = ("u1" :> [NoneAdmitted EXCEPT ![kind] = n])
          /\ published = [t \in TopicNames |-> IF t = "system.health" THEN n ELSE 0]

NextRateLimit ==
    \/ \E kind \in DOMAIN Routes \cup {"unrouted"}, userId \in RateUsers :
          RouteStart(kind, userId)
    \/ \E q \in DOMAIN requests : RoutePublish(q)
    \/ \E q \in DOMAIN requests : RouteService(q)
    \/ \E q \in DOMAIN requests : RouteSucceed(q)
    \/ \E q \in DOMAIN requests : RouteFail(q)
    \/ Advance

SpecRateLimit == InitRateLimit /\ [][NextRateLimit]_vars

\* ===================================================================== claims
\* every publish promise has settled
Quiescent == \A p \in Procs : pc[p] \in {"idle", "done", "rejected"}

\* number of invocations of a publish call that returned normally
OkCount(inv) == Cardinality({i \in 1..Len(inv) : inv[i].outcome = "ok"})

RECURSIVE OkUpTo(_)
OkUpTo(n) == IF n = 0 THEN 0 ELSE OkCount(invoked[n]) + OkUpTo(n - 1)

RECURSIVE AtStartUpTo(_)
AtStartUpTo(n) == IF n = 0 THEN 0 ELSE Len(atStart[n]) + AtStartUpTo(n - 1)

\* number of invocations of subscription id made for publish call p with p's payload
Invocations(p, id) ==
    Cardinality({i \in 1..Len(invoked[p]) :
                    invoked[p][i].id = id /\ invoked[p][i].payload = event[p].payload})

\* C1 (as amended): totalConsumed is the number of callback invocations that
\* returned normally: every publish adds to it one per subscriber callback that
\* was invoked for the event and did not throw.  A publish whose delivery the
\* registry did not change under invokes N callbacks, N the number of
\* subscribers of the topic when delivery started.
C1_ConsumedCountsNormalReturns ==
    /\ metrics.totalConsumed = OkUpTo(MaxPublish)
    /\ \A p \in Procs : (pc[p] = "done" /\ Undisturbed(p)) =>
            Len(invoked[p]) = Len(atStart[p])

\* C1 witness: a resolved publish with two invocations, one of which threw
C1_Witness ==
    \E p \in Procs : pc[p] = "done" /\ Len(invoked[p]) = 2 /\ OkCount(invoked[p]) = 1

\* C1 (as stated): once the publishes have resolved, with no registry change
\* during any delivery, totalConsumed has grown by the number N of subscribers
\* each event's topic had when its delivery started, throwing callbacks included.
C1_ConsumedGrowsByN ==
    (Quiescent /\ \A p \in Procs : Undisturbed(p))
        => metrics.totalConsumed = AtStartUpTo(MaxPublish)

\* C2 (as stated): once all publish promises have resolved, currentDepth is 0.
C2_DepthReturnsToZero == Quiescent => metrics.currentDepth = 0

\* C3 (as stated): when a publish has resolved whose delivery saw the registry
\* change between two of its invocations, every subscription that was on the
\* topic when delivery began and was never unsubscribed has been invoked.
C3_UnsubscribeLeavesOthers ==
    \A p \in Procs : (pc[p] = "done" /\ changedAfter[p] >= 1) =>
        \A i \in 1..Len(atStart[p]) :
            atStart[p][i].id \notin unsubscribed
                => atStart[p][i].id \in SubIds(invoked[p])

\* C4: when a publish has resolved and the registry did not change during its
\* delivery, every subscriber the topic had was invoked with the payload, also
\* the ones that come after a subscriber whose callback threw.
C4_ThrowDoesNotStopDelivery ==
    \A p \in Procs : (pc[p] = "done" /\ Undisturbed(p)) =>
        \A i \in 1..Len(atStart[p]) : Invocations(p, atStart[p][i].id) >= 1

\* C4 witness: three subscribers, the second one threw, the third one was invoked
C4_Witness ==
    \E p \in Procs :
        /\ pc[p] = "done" /\ Undisturbed(p)
        /\ Len(atStart[p]) = 3 /\ Len(invoked[p]) = 3
        /\ invoked[p][2].outcome = "throw"
        /\ invoked[p][3].id = atStart[p][3].id
        /\ invoked[p][3].payload = event[p].payload

\* C5: no publish promise is ever rejected, whatever callbacks throw.
C5_PublishNeverRejects == \A p \in Procs : pc[p] # "rejected"

\* C5 witness: a publish resolved although every callback it invoked threw
C5_Witness ==
    \E p \in Procs :
        /\ pc[p] = "done" /\ Len(invoked[p]) >= 1
        /\ \A i \in 1..Len(invoked[p]) : invoked[p][i].outcome = "throw"

\* C6: a publish never invokes a subscription that had been unsubscribed before
\* the publish was called; the registry holds exactly the issued ids that were
\* not unsubscribed, and a publish whose delivery the registry did not change
\* under invokes all the subscriptions its topic had.
C6_UnsubscribedNotInvoked ==
    /\ \A p \in Procs : SubIds(invoked[p]) \cap removedBefore[p] = {}
    /\ LiveIds = (1..(nextId - 1)) \ unsubscribed
    /\ \A p \in Procs : (pc[p] = "done" /\ Undisturbed(p)) =>
            SubIds(atStart[p]) \subseteq SubIds(invoked[p])

\* C6 witness: subscribe 1 and 2 to a topic, unsubscribe 1, publish: only 2 is invoked
C6_Witness ==
    \E p \in Procs :
        /\ pc[p] = "done"
        /\ removedBefore[p] = {1}
        /\ SubIds(invoked[p]) = {2}

\* C7 (as stated): when a publish has resolved, every subscription that was on
\* the topic when delivery began and was never unsubscribed has been invoked
\* exactly once with the payload.
C7_InvokedExactlyOnce ==
    \A p \in Procs : pc[p] = "done" =>
        \A i \in 1..Len(atStart[p]) :
            atStart[p][i].id \notin unsubscribed
                => Invocations(p, atStart[p][i].id) = 1

\* C8 (as stated): only subscriptions that were on the topic when the delivery
\* of an event began are invoked for it, also when the registry changes between
\* two invocations of the delivery.
C8_SubscriberSetFixedAtStart ==
    \A p \in Procs : changedAfter[p] >= 1 =>
        SubIds(invoked[p]) \subseteq SubIds(atStart[p])

\* C9: totalPublished is the number of publish calls made so far: each call
\* adds 1 in the step that makes it, before its first await, and no other
\* operation changes it.
C9_PublishedCountsCalls ==
    metrics.totalPublished = Cardinality({p \in Procs : pc[p] # "idle"})

\* C9 witness: the second call is still in its first await, on a topic without
\* subscribers, and is already counted
C9_Witness ==
    \E p \in Procs :
        /\ pc[p] = "latency"
        /\ event[p].topic \notin DOMAIN subscribers
        /\ metrics.totalPublished = 2

\* C10: after k publishes have resolved the window holds the min(k, 100) most
\* recent samples in completion order, and avgLatency is their rounded mean.
C10_WindowIsLastHundred ==
    LET k == Len(samples)
        n == IF k < LatencyWindow THEN k ELSE LatencyWindow
        recent == SubSeq(samples, k - n + 1, k)
    IN /\ Len(latencies) = n
       /\ latencies = recent
       /\ k > 0 => metrics.avgLatency = RoundDiv(SumSeq(recent), n)

\* C10 witness: the 150th and 151st publish resolved, 51 samples were discarded
C10_Witness ==
    /\ Len(samples) = 151
    /\ Len(latencies) = LatencyWindow
    /\ \E p \in Procs : pc[p] = "done" /\ Len(invoked[p]) >= 1

\* a publish call that has been made and has not settled
InFlight(p) == pc[p] \in {"latency", "deliver"}

\* C11 (as stated): currentDepth is the number of events that were published and
\* whose delivery has not completed yet.
C11_DepthIsInFlight ==
    metrics.currentDepth = Cardinality({p \in Procs : InFlight(p)})

\* C12: a publish to a topic without subscribers resolves in the step that looks
\* the topic up: it invokes no callback and leaves totalConsumed and the topic
\* registry as they were, with no entry for the topic.
C12_NoSubscribersIsNoop ==
    /\ [](\A p \in Procs : (pc[p] = "done" /\ Len(atStart[p]) = 0) => invoked[p] = << >>)
    /\ [][\A p \in Procs :
            (pc[p] = "latency" /\ pc'[p] # "latency"
                /\ event[p].topic \notin DOMAIN subscribers) =>
                /\ pc'[p] = "done"
                /\ invoked' = invoked
                /\ metrics'.totalConsumed = metrics.totalConsumed
                /\ metrics'.totalPublished = metrics.totalPublished
                /\ subscribers' = subscribers
                /\ heap' = heap]_vars

\* C12 witness: the spec's scenario, one publish to a topic nobody subscribed to
C12_Witness ==
    \E p \in Procs :
        /\ pc[p] = "done" /\ atStart[p] = << >> /\ invoked[p] = << >>
        /\ event[p].topic \notin DOMAIN subscribers
        /\ metrics.totalPublished = 1 /\ metrics.totalConsumed = 0

\* the ids of a sequence of subscriptions or invocation records, in order
IdSeq(s) == [i \in 1..Len(s) |-> s[i].id]

\* ids are issued in increasing order, so a sequence is in registration order
\* when its ids increase
Increasing(ids) == \A i, j \in 1..Len(ids) : i < j => ids[i] < ids[j]

\* C13: the invocations of one delivery are made in registration order, each
\* after the one before it has returned or thrown; the registry keeps every
\* topic's subscriptions in registration order, and a delivery the registry did
\* not change under invokes its subscribers in exactly that order.
C13_RegistrationOrder ==
    /\ \A t \in DOMAIN subscribers : Increasing(IdSeq(heap[subscribers[t]]))
    /\ \A p \in Procs :
        /\ Increasing(IdSeq(invoked[p]))
        /\ \A i \in 1..Len(invoked[p]) : invoked[p][i].outcome \in Outcomes
        /\ (pc[p] = "done" /\ Undisturbed(p)) => IdSeq(invoked[p]) = IdSeq(atStart[p])

\* C13 witness: three subscribers of a topic invoked in the order 1, 2, 3, the
\* second one after the first one threw
C13_Witness ==
    \E p \in Procs :
        /\ pc[p] = "done" /\ Undisturbed(p)
        /\ IdSeq(invoked[p]) = <<1, 2, 3>>
        /\ invoked[p][1].outcome = "throw"

\* C14: an unsubscribe call with an id the registry does not hold (never
\* issued, or unsubscribed before) finds the id under no topic, so it takes no
\* branch that could fail, and it leaves the registry, the queue and the metrics
\* as they were.
C14_UnknownIdIsNoop ==
    /\ [](\A id \in 0..MaxSubscribe : id \notin LiveIds =>
            \A t \in DOMAIN subscribers : FindIndex(heap[subscribers[t]], id) = 0)
    /\ [][\A id \in 0..MaxSubscribe :
            (id \notin LiveIds /\ Unsubscribe(id)) =>
                UNCHANGED <<subscribers, heap, messageQueue, metrics>>]_vars

\* C14 witness: a bus with a subscription, a queued event and nonzero metrics on
\* which the ids 0 (never issued) and 1 (unsubscribed before) are unknown
C14_Witness ==
    /\ unsubscribed = {1}
    /\ 0 \notin LiveIds /\ 1 \notin LiveIds /\ LiveIds # {}
    /\ messageQueue # << >>
    /\ metrics.totalConsumed > 0

\* C15: the registry never maps a topic to an empty list: a topic has an entry
\* exactly when a subscription to it is registered, and the entries of two
\* topics are two arrays.
C15_NoEmptyTopicEntry ==
    /\ \A t \in DOMAIN subscribers :
        /\ Len(heap[subscribers[t]]) >= 1
        /\ \A i \in 1..Len(heap[subscribers[t]]) : heap[subscribers[t]][i].topic = t
    /\ \A t, u \in DOMAIN subscribers : subscribers[t] = subscribers[u] => t = u
    /\ \A t \in Topics \ DOMAIN subscribers :
        \A a \in 1..Len(heap) : \A i \in 1..Len(heap[a]) : heap[a][i].topic # t

\* C15 witness: the last subscription of a topic was removed: its array is
\* empty and no topic maps to it, while another topic keeps its entry
C15_Witness ==
    /\ unsubscribed # {}
    /\ DOMAIN subscribers # {}
    /\ \E a \in 1..Len(heap) :
        /\ heap[a] = << >>
        /\ \A t \in DOMAIN subscribers : subscribers[t] # a

\* number of elements of a sequence of subscriptions or invocation records
\* that carry callback c
CountCallback(s, c) == Cardinality({i \in 1..Len(s) : s[i].callback = c})

\* C16: subscriptions are told apart by id: the ids under a topic are distinct
\* also when the callbacks are equal, a delivery the registry did not change
\* under invokes a callback once per subscription that carries it, and an
\* unsubscribe call that names a registered id removes that subscription alone.
C16_IdentityIsTheId ==
    /\ [](\A t \in DOMAIN subscribers :
            Cardinality(SubIds(heap[subscribers[t]])) = Len(heap[subscribers[t]]))
    /\ [](\A p \in Procs : (pc[p] = "done" /\ Undisturbed(p)) =>
            \A c \in Callbacks : CountCallback(invoked[p], c) = CountCallback(atStart[p], c))
    /\ [][\A id \in 1..MaxSubscribe :
            (id \notin unsubscribed /\ id \in unsubscribed') =>
                LiveIds' = LiveIds \ {id}]_vars

\* C16 witness: one callback subscribed twice to a topic is invoked twice by a
\* first publish; after unsubscribe(1) a second publish invokes subscription 2
C16_Witness ==
    /\ pc[1] = "done" /\ pc[2] = "done"
    /\ event[1].topic = event[2].topic
    /\ IdSeq(invoked[1]) = <<1, 2>>
    /\ invoked[1][1].callback = invoked[1][2].callback
    /\ unsubscribed = {1}
    /\ IdSeq(invoked[2]) = <<2>>

\* C17: once every publish promise has settled, whatever the interleaving of
\* the publish, subscribe, unsubscribe and clear calls was, totalPublished is
\* the number of publish calls and totalConsumed the number of callback
\* invocations that returned normally.
C17_NoLostCounterUpdate ==
    Quiescent =>
        /\ metrics.totalPublished = Cardinality({p \in Procs : pc[p] # "idle"})
        /\ metrics.totalConsumed = OkUpTo(MaxPublish)

\* C17 witness: two publishes have resolved, each with a callback that
\* returned, one with a callback that threw and one whose delivery saw the
\* registry change between two invocations
C17_Witness ==
    /\ \A p \in Procs : pc[p] = "done" /\ OkCount(invoked[p]) >= 1
    /\ \E p \in Procs : OkCount(invoked[p]) < Len(invoked[p])
    /\ \E p \in Procs : changedAfter[p] >= 1
    /\ metrics.totalPublished = MaxPublish

\* C18: the object getMetrics returned reads what it held when it was
\* returned, changed only by the caller's own writes, whatever publishes,
\* deliveries and ticks came later; and neither the call nor a write of the
\* caller to that object changes a metric of the bus.
C18_GetMetricsIsACopy ==
    /\ [](snapshot.object # "none" => ReadSnapshot = expected)
    /\ [][expected' # expected => metrics' = metrics]_vars

\* C18 witness: the caller took the object before the first publish and wrote
\* two of its fields; two publishes were delivered and a tick ran since
C18_Witness ==
    /\ snapshot.object = "copy"
    /\ snapshot.fields.totalPublished = 9 /\ snapshot.fields.currentDepth = 9
    /\ snapshot.fields.totalConsumed = 0
    /\ metrics.totalPublished = 2 /\ metrics.totalConsumed >= 2
    /\ metrics.throughput >= 1

\* the event of publish call p is in the pending queue
InQueue(p) == \E i \in 1..Len(messageQueue) : messageQueue[i].id = event[p].id

\* C19: currentDepth is at all times the number of queued events, never
\* negative; a step that takes the event of a publish in flight out of the
\* queue without moving that publish (a clear()) leaves the queue empty and
\* currentDepth 0; and a publish whose event was cleared while it was in flight
\* goes on to resolve.
C19_ClearWithPublishesInFlight ==
    /\ [](metrics.currentDepth = Len(messageQueue) /\ metrics.currentDepth >= 0)
    /\ [](\A p \in Procs : pc[p] # "rejected")
    /\ [][\A p \in Procs :
            (InFlight(p) /\ pc'[p] = pc[p] /\ InQueue(p) /\ ~InQueue(p)') =>
                (messageQueue' = << >> /\ metrics'.currentDepth = 0)]_vars
    /\ \A p \in Procs : (InFlight(p) /\ ~InQueue(p)) ~> (pc[p] = "done")

\* C19 witness: clear() ran during the delivery of the first event, after a
\* callback had been invoked; a second publish was called since and its event
\* is the one queued event
C19_Witness ==
    /\ pc[1] = "deliver" /\ Len(invoked[1]) >= 1 /\ ~InQueue(1)
    /\ pc[2] = "latency" /\ messageQueue = <<event[2]>>
    /\ metrics.currentDepth = 1

\* C20: the per-second counter holds the number of publish calls made since
\* the last tick, a tick stores that number in throughput and resets the counter
\* to 0, and throughput changes at ticks only: it is the number of publish calls
\* made between the last two ticks, 0 when there were none.
C20_ThroughputIsCallsPerTick ==
    /\ [](messagesInLastSecond = publishedSinceTick)
    /\ [](metrics.throughput = lastTickCount)
    /\ [][metrics'.throughput # metrics.throughput =>
            (metrics'.throughput = publishedSinceTick /\ messagesInLastSecond' = 0)]_vars

\* C20 witness: two publish calls were counted by a tick, and the tick after
\* it, a period without publishes, set throughput to 0
C20_Witness ==
    /\ metrics.totalPublished = 2
    /\ messagesInLastSecond = 0
    /\ metrics.throughput = 0 /\ lastTickCount = 0
    /\ throughputInterval

\* ------------------------------------------------- claims about the processor

\* transaction t's balance change is being applied in this step
Applying(t) == txns[t].pc = "validated" /\ txns'[t].pc = "balancePublish"

\* C24 (as stated): no debit is applied to an account unless the account's
\* availableBalance at the moment the change is applied is at least the debit
\* amount, also when debits of one batch interleave between validation and update.
C24_DebitCoveredWhenApplied ==
    [][\A t \in DOMAIN txns :
          Applying(t) /\ txns[t].type = "debit"
          => accounts[txns[t].accountId].availableBalance >= txns[t].amount]_vars

\* the transactions of batch b whose processTransaction resolved
Succeeded(b) == {i \in Range(batches[b].transactions) : txns[i].result = "resolved"}

\* the transactions of batch b whose processTransaction rejected
Rejected(b) == {i \in Range(batches[b].transactions) : txns[i].result = "rejected"}

\* C25: processBatch goes on past failing transactions: the count of a batch is
\* always the number of its transactions processed successfully so far, between 0
\* and totalCount, the batch never gets status 'failed', and it returns with
\* status 'completed' once every transaction has settled, whichever failed.
C25_BatchSurvivesFailures ==
    \A b \in DOMAIN batches :
        /\ batches[b].processedCount = Cardinality(Succeeded(b))
        /\ 0 <= batches[b].processedCount
        /\ batches[b].processedCount <= batches[b].totalCount
        /\ batches[b].status \in {"processing", "completed"}
        /\ batches[b].pc = "returned"
           => /\ batches[b].status = "completed"
              /\ Succeeded(b) \cup Rejected(b) = Range(batches[b].transactions)

\* C25 witness: a batch of two has returned, one transaction failed and the
\* other was processed
C25_Witness ==
    \E b \in DOMAIN batches :
        /\ batches[b].pc = "returned"
        /\ batches[b].totalCount = 2
        /\ Cardinality(Rejected(b)) = 1
        /\ batches[b].processedCount = 1

RECURSIVE Batched(_)
\* the transactions of the first n batches, in the order they were taken
Batched(n) == IF n = 0 THEN << >> ELSE Batched(n - 1) \o batches[n].transactions

\* C26: the worker takes from the front of the queue in FIFO order, at most 10
\* per tick: the batches in the order they were made, followed by the queue, are
\* the transactions in the order they were enqueued, each exactly once, also
\* when a tick fires while an earlier batch is still being processed; and each
\* tick moves a non-empty prefix of at most 10 from the queue into a new batch.
C26_FifoBatchesOfTen ==
    /\ [](Batched(Len(batches)) \o processingQueue = [i \in 1..Len(txns) |-> i])
    /\ [](\A b \in DOMAIN batches : Len(batches[b].transactions) \in 1..10)
    /\ [][Len(batches') = Len(batches) + 1
          => /\ batches'[Len(batches')].transactions \o processingQueue' = processingQueue
             /\ \/ processingQueue' = << >>
                \/ Len(batches'[Len(batches')].transactions) = 10]_vars

\* C26 witness: a tick found eleven transactions queued, took ten and left the
\* eleventh, and the next tick took that one while the first batch was running
C26_Witness ==
    /\ Len(batches) = 2
    /\ batches[1].totalCount = 10
    /\ batches[1].pc = "running"
    /\ batches[2].transactions = <<11>>
    /\ processingQueue = << >>

\* the processTransaction of transaction i has settled, leaving a final status
Settled(i) ==
    /\ Len(txns) >= i
    /\ \/ txns[i].pc = "done" /\ txns[i].status = "completed"
       \/ txns[i].pc = "failed" /\ txns[i].status = "failed"

\* C27: while the worker keeps ticking and the sleeps elapse, every transaction
\* passed to enqueueTransaction is eventually processed to the end, with status
\* 'completed' or 'failed'.
C27_EnqueuedIsSettled ==
    \A i \in 1..MaxTxn : (Len(txns) >= i) ~> Settled(i)

\* C27 witness: two enqueued transactions have settled, one each way
C27_Witness ==
    /\ Settled(1)
    /\ Settled(2)
    /\ txns[1].status = "failed"
    /\ txns[2].status = "completed"
    /\ txns[2].origin = "enqueue"

\* transaction t is at the start of processTransaction and cannot pass validation
Invalid(t) ==
    /\ txns[t].pc = "stagger"
    /\ \/ txns[t].accountId \notin DOMAIN accounts
       \/ /\ txns[t].type = "debit"
          /\ txns[t].amount > accounts[txns[t].accountId].availableBalance

\* what a failing processTransaction leaves alone
FailureFrame ==
    /\ accounts' = accounts
    /\ transactions' = transactions
    /\ txMetrics'.totalProcessed = txMetrics.totalProcessed

\* C28: a processTransaction that fails validation (unknown account, or a debit
\* above the available balance) sets the status to 'failed', adds 1 to
\* errorCount and publishes one transactions.failed event, then rejects with
\* the error; neither step changes a balance, an available balance, the stored
\* transactions or totalProcessed.
C28_ValidationFailure ==
    [][\A t \in DOMAIN txns :
          /\ Invalid(t) /\ txns'[t] # txns[t]
             => /\ txns'[t].status = "failed"
                /\ txns'[t].pc = "failedPublish"
                /\ txMetrics'.errorCount = txMetrics.errorCount + 1
                /\ published' = [published EXCEPT !["transactions.failed"] = @ + 1]
                /\ FailureFrame
          /\ txns[t].pc = "failedPublish" /\ txns'[t] # txns[t]
             => /\ txns'[t].result = "rejected"
                /\ txns'[t].status = "failed"
                /\ txMetrics' = txMetrics
                /\ published' = published
                /\ FailureFrame]_vars

\* C28 witness: a debit on a known account was rejected for its amount, and a
\* transaction on an unknown account was rejected too
C28_Witness ==
    /\ \E t \in DOMAIN txns :
          /\ txns[t].result = "rejected"
          /\ txns[t].accountId = "acc_4"
          /\ t \notin transactions
    /\ \E t \in DOMAIN txns : txns[t].result = "rejected" /\ txns[t].accountId = "acc_0"
    /\ txMetrics.errorCount = 2
    /\ published["transactions.failed"] = 2

\* the signed amount of transaction t: +amount for a credit, -amount for a debit
Signed(t) == IF txns[t].type = "credit" THEN txns[t].amount ELSE 0 - txns[t].amount

\* C29 (as stated): for every transaction that processTransaction completes, the
\* account's balance and its availableBalance both change by the signed amount.
\* Every transaction whose balance change is applied ends with status
\* 'completed'.
C29_BothBalancesMove ==
    [][\A t \in DOMAIN txns :
          Applying(t)
          => LET id == txns[t].accountId
             IN /\ accounts'[id].balance = accounts[id].balance + Signed(t)
                /\ accounts'[id].availableBalance
                      = accounts[id].availableBalance + Signed(t)]_vars

\* every transaction whose balance change was applied is completed in the end
AppliedIsCompleted ==
    \A t \in DOMAIN txns :
        txns[t].pc \in {"processedPublish", "done"} => txns[t].status = "completed"

\* C30 (as stated): getHealth sets the status from the error rate: 'down' when
\* the rate is above 10, 'degraded' when it is above 5 and at most 10, 'healthy'
\* otherwise.
C30_StatusFromErrorRate ==
    health.checked
    => health.status = IF health.errorRate.num > 10 * health.errorRate.den THEN "down"
                       ELSE IF health.errorRate.num > 5 * health.errorRate.den
                            THEN "degraded"
                       ELSE "healthy"

\* ---------------------------------------------------- claims about the gateway

\* C23: neither the health tick nor a routed request changes the status of a
\* registered service: every service keeps the status it was registered with,
\* whatever its latency and error rate have become, and no error rate is
\* negative.
C23_StatusIsNeverDerived ==
    /\ DOMAIN serviceRegistry = DOMAIN InitialRegistry
    /\ \A name \in DOMAIN serviceRegistry :
          /\ serviceRegistry[name].status = InitialRegistry[name].status
          /\ serviceRegistry[name].errorRate >= 0

\* C23 witness: after two ticks and two requests, one routed and one failed, the
\* gateway's error rate was cut off at 0, the ml service's error rate and
\* latency have grown, and the statuses are what they were
C23_Witness ==
    /\ healthTicks = 2
    /\ serviceRegistry["gateway"].errorRate = 0
    /\ serviceRegistry["gateway"].latency > InitialRegistry["gateway"].latency
    /\ serviceRegistry["ml"].errorRate > InitialRegistry["ml"].errorRate
    /\ serviceRegistry["ml"].latency > InitialRegistry["ml"].latency
    /\ \E q \in DOMAIN requests : requests[q].success = "true"
    /\ \E q \in DOMAIN requests : requests[q].success = "false"

\* a route() call is made in this step
Calling == Len(requests') = Len(requests) + 1

\* the request of the route() call made in this step
Called == requests'[Len(requests')]

\* user u has a rate-limit window that is open
InWindow(u) == u \in DOMAIN rateLimitMap /\ ~(rateLimitMap[u].resetAt < now)

\* C31: within one rate-limit window a user has at most L requests admitted on
\* a route with limit L; a further request of the user to that route in the
\* window fails with 'Rate limit exceeded', resolves with success false, and
\* leaves the counter as it was.
C31_AtMostLimitPerWindow ==
    /\ [](\A u \in DOMAIN admittedInWindow, k \in DOMAIN Routes :
             admittedInWindow[u][k] <= Routes[k].rateLimit)
    /\ [][Calling /\ Called.kind \in DOMAIN Routes /\ InWindow(Called.userId)
          => LET u == Called.userId
                 k == Called.kind
             IN admittedInWindow[u][k] >= Routes[k].rateLimit
                => /\ Called.error = "Rate limit exceeded"
                   /\ rateLimitMap' = rateLimitMap
                   /\ admittedInWindow' = admittedInWindow
                   /\ traces' = traces]_vars
    /\ [](\A q \in DOMAIN requests :
             requests[q].pc = "done" /\ requests[q].error = "Rate limit exceeded"
             => requests[q].success = "false")

\* C31 witness: u1's tenth request on the route with limit 10 was admitted and
\* the eleventh, in the same window, has resolved with the rate-limit failure
C31_Witness ==
    /\ InWindow("u1")
    /\ rateLimitMap["u1"].count = 10
    /\ admittedInWindow["u1"]["autopsy"] = 10
    /\ \E q \in Made : requests[q].kind = "autopsy" /\ requests[q].error = ""
    /\ \E q \in Made :
          /\ requests[q].kind = "autopsy" /\ requests[q].userId = "u1"
          /\ requests[q].pc = "done"
          /\ requests[q].error = "Rate limit exceeded"
          /\ requests[q].success = "false"

\* C32 (as stated): rate limits are per route: a user who stays within each
\* route's own limit is never rate limited, so a request that fails with 'Rate
\* limit exceeded' finds the route's limit already admitted to its user on that
\* route in the window.
C32_LimitsArePerRoute ==
    [][Calling /\ Called.error = "Rate limit exceeded"
       => /\ Called.userId \in DOMAIN admittedInWindow
          /\ admittedInWindow[Called.userId][Called.kind]
                >= Routes[Called.kind].rateLimit]_vars

\* C33: a rate-limited user recovers. A request to an existing route by a user
\* whose window has passed (resetAt < now) is admitted and starts a new window
\* with count 1 that ends 60 seconds later; so a user that was rejected in a
\* window is admitted again on a request made more than 60 seconds after the
\* window opened.
C33_RecoversAfterWindow ==
    [][Calling /\ Called.kind \in DOMAIN Routes
          /\ Called.userId \in DOMAIN rateLimitMap
          /\ rateLimitMap[Called.userId].resetAt < now
       => /\ Called.error = ""
          /\ Len(requests') \in traces'
          /\ rateLimitMap'[Called.userId] = [count |-> 1, resetAt |-> now + WindowMs]]_vars

C33_Witness ==
    /\ \E q \in Made : /\ requests[q].userId = "u1"
                       /\ requests[q].error = "Rate limit exceeded"
    /\ \E q \in Made : /\ requests[q].userId = "u1"
                       /\ requests[q].error = ""
                       /\ requests[q].kind = "autopsy"
    /\ now > WindowMs
    /\ rateLimitMap["u1"] = [count |-> 1, resetAt |-> now + WindowMs]

\* the call being made matches no route, or is over its user's rate limit
Refused ==
    \/ Called.kind \notin DOMAIN Routes
    \/ /\ InWindow(Called.userId)
       /\ rateLimitMap[Called.userId].count >= Routes[Called.kind].rateLimit

\* the route() calls made since the initial state that failed
FailedCalls == {q \in Made : requests[q].error # ""}

\* C34: route() never rejects. A request that matches no route, or that is
\* rate limited, resolves with success false and the error message as a value;
\* over the whole call failedRequests grows by exactly 1, successfulRequests
\* does not change, no trace is created and exactly one system.error event is
\* published.
C34_FailureIsAValue ==
    /\ [][Calling /\ Refused
          => /\ Called.error = IF Called.kind \notin DOMAIN Routes
                               THEN "Route not found" ELSE "Rate limit exceeded"
             /\ Called.pc = "errorPublish"
             /\ gwMetrics'.failedRequests = gwMetrics.failedRequests + 1
             /\ gwMetrics'.successfulRequests = gwMetrics.successfulRequests
             /\ traces' = traces
             /\ published'["system.error"] = published["system.error"] + 1]_vars
    /\ [][\A q \in DOMAIN requests :
             requests[q].pc = "errorPublish" /\ requests'[q].pc # "errorPublish"
             => /\ requests'[q] = [requests[q] EXCEPT !.pc = "done", !.success = "false"]
                /\ gwMetrics' = gwMetrics
                /\ traces' = traces
                /\ published' = published]_vars
    /\ [](/\ gwMetrics.failedRequests = Cardinality(FailedCalls)
          /\ published["system.error"] = Cardinality(FailedCalls)
          /\ FailedCalls \cap traces = {}
          /\ \A q \in DOMAIN requests : requests[q].success # "rejected")

C34_Witness ==
    /\ \E q \in Made : /\ requests[q].error = "Route not found"
                       /\ requests[q].pc = "done"
                       /\ requests[q].success = "false"
    /\ \E q \in Made : /\ requests[q].error = "Rate limit exceeded"
                       /\ requests[q].pc = "done"
                       /\ requests[q].success = "false"
    /\ gwMetrics.failedRequests = 2
    /\ published["system.error"] = 2

\* the route() calls that have been made and have not resolved
CallsInFlight == {q \in DOMAIN requests : requests[q].pc # "done"}

\* C35 (as stated): a route() call that has resolved, with success or with
\* failure, is no longer in activeRequests: in every state
\* getMetrics().activeRequests is the number of route() calls in flight, and it
\* is 0 when none is in flight.
C35_ActiveRequestsAreInFlight ==
    /\ activeRequests = CallsInFlight
    /\ GatewayGetMetrics.activeRequests = Cardinality(CallsInFlight)

\* ------------------------------------------------------- claims about the hook

\* both teardowns have run
TornDown == ~throughputInterval /\ ~intervalRef /\ ~anomalyIntervalRef

\* C21: teardown only stops the periodic ticks.  It is final, and after it no
\* tick of the bus stores a throughput or resets the per-second counter and no
\* stream fires; a publish that is in flight when the teardown is over, or was
\* when the hook's cleanup ran, still resolves, having invoked every subscriber
\* of its topic, and the counters count its deliveries and its latency sample.
C21_TeardownStopsTicksOnly ==
    /\ [][~throughputInterval
          => /\ ~throughputInterval'
             /\ metrics'.throughput = metrics.throughput
             /\ lastTickCount' = lastTickCount
             /\ messagesInLastSecond' >= messagesInLastSecond]_vars
    /\ [][~intervalRef \/ ~anomalyIntervalRef
          => /\ ~intervalRef' /\ ~anomalyIntervalRef'
             /\ emitted' = emitted
             /\ published' = published
             /\ metrics'.totalPublished = metrics.totalPublished]_vars
    /\ [](\A p \in Procs : pc[p] = "done" => SubIds(invoked[p]) = {1, 2})
    /\ [](metrics.totalConsumed = OkUpTo(MaxPublish))
    /\ [](Len(samples) = Cardinality({p \in Procs : pc[p] = "done"}))
    /\ \A p \in Procs : (TornDown /\ InFlight(p)) ~> (pc[p] = "done")
    /\ \A p \in Procs : (p \in atCleanup) ~> (pc[p] = "done")

\* C21 witness: a publish that was in flight when the cleanup ran has resolved
\* after both teardowns; both subscribers were invoked and counted, its latency
\* was recorded, and the per-second counter was not reset since
C21_Witness ==
    /\ TornDown
    /\ \E p \in atCleanup :
          /\ pc[p] = "done"
          /\ OkCount(invoked[p]) = 2
    /\ metrics.totalConsumed >= 2
    /\ Len(latencies) >= 1
    /\ messagesInLastSecond >= 1
    /\ metrics.currentDepth = 0

\* C22 (as stated): each firing of the transaction stream that finds an account
\* publishes exactly one event on transactions.new, the one that carries the
\* transaction.
C22_OneEventPerFiring ==
    [][emitted' = emitted + 1
       => /\ published'["transactions.new"] = published["transactions.new"] + 1
          /\ streamed' = streamed + 1]_vars

====
